---- MODULE Spec2Model ----
(***************************************************************************)
(* Task orchestration engine of seedcanvas (src-tauri/src/tasks, db.rs):   *)
(* the task store, TaskQueue::submit_image / submit_video /                *)
(* resume_running_tasks, the image and video executors and the completion  *)
(* dispatch of spawn_image / spawn_video.                                  *)
(***************************************************************************)
EXTENDS Integers, Sequences, FiniteSets, TLC

\* ------------------------------------------------------------------------
\* Bounds of the model
\* ------------------------------------------------------------------------
MaxTasks == 2
MaxExecs == 2
MaxFaults == 1
MaxConns == 2
MaxFrames == 2

\* ------------------------------------------------------------------------
\* Option<T>: None is the empty sequence, Some(x) the one-element sequence
\* ------------------------------------------------------------------------
None == <<>>
Some(x) == <<x>>

\* ------------------------------------------------------------------------
\* Valid values (tasks/mod.rs)
\* ------------------------------------------------------------------------
IMAGE_MODELS ==
    { "doubao-seedream-5-0-260128", "doubao-seedream-5-0-lite-260128",
      "doubao-seedream-4-5-251128", "doubao-seedream-4-0-250828" }

IMAGE_SIZES ==
    { "1K", "2K", "3K", "4K",
      "2048x2048", "1728x2304", "2304x1728", "2848x1600", "1600x2848",
      "2496x1664", "1664x2496", "3136x1344",
      "1024x1024", "864x1152", "1152x864", "1312x736", "736x1312",
      "832x1248", "1248x832", "1568x672",
      "3072x3072", "2592x3456", "3456x2592", "4096x2304", "2304x4096",
      "2496x3744", "3744x2496", "4704x2016",
      "4096x4096", "3520x4704", "4704x3520", "5504x3040", "3040x5504",
      "3328x4992", "4992x3328", "6240x2656" }

VIDEO_MODELS ==
    { "doubao-seedance-1-5-pro-251215", "doubao-seedance-1-0-pro-250528",
      "doubao-seedance-1-0-pro-fast-251015",
      "doubao-seedance-1-0-lite-t2v-250428",
      "doubao-seedance-1-0-lite-i2v-250428" }

VIDEO_RESOLUTIONS == { "480p", "720p", "1080p" }
VIDEO_RATIOS == { "16:9", "9:16", "4:3", "3:4", "1:1", "21:9", "adaptive" }

DEFAULT_IMAGE_MODEL == "doubao-seedream-5-0-260128"
DEFAULT_IMAGE_SIZE == "2K"
DEFAULT_VIDEO_MODEL == "doubao-seedance-1-5-pro-251215"
DEFAULT_VIDEO_RESOLUTION == "720p"
DEFAULT_VIDEO_RATIO == "16:9"
DEFAULT_VIDEO_DURATION == 5

POLL_INTERVAL == 5
POLL_TIMEOUT == 600

\* ------------------------------------------------------------------------
\* Strings whose content the code inspects are sequences of characters
\* ------------------------------------------------------------------------
Whitespace == { " ", "\t", "\n" }

RECURSIVE TrimStart(_)
TrimStart(s) ==
    IF s # <<>> /\ Head(s) \in Whitespace THEN TrimStart(Tail(s)) ELSE s

RECURSIVE TrimEnd(_)
TrimEnd(s) ==
    IF s # <<>> /\ s[Len(s)] \in Whitespace
    THEN TrimEnd(SubSeq(s, 1, Len(s) - 1)) ELSE s

\* str::trim
Trim(s) == TrimEnd(TrimStart(s))

\* anyhow results; a sequence like an Option, so that "nothing yet" compares
Ok(v) == <<[ok |-> TRUE, val |-> v]>>
Err(m) == <<[ok |-> FALSE, err |-> m]>>

\* ------------------------------------------------------------------------
\* Submit parameters: defaults and validation
\* ------------------------------------------------------------------------
\* variant of ImageParams_normalize: an unset size stays unset
ImageParams_normalize_size_unfilled(p) ==
    IF Len(Trim(p.prompt)) = 0 THEN Err("prompt must not be empty")
    ELSE LET model == IF p.model = None THEN Some(DEFAULT_IMAGE_MODEL) ELSE p.model
         IN  IF model[1] \notin IMAGE_MODELS THEN Err("invalid image model")
             ELSE LET size == IF p.size = None THEN Some(DEFAULT_IMAGE_SIZE) ELSE p.size
                  IN  IF size[1] \notin IMAGE_SIZES THEN Err("invalid image size")
                      ELSE Ok([p EXCEPT !.model = model])

\* variant of ImageParams_normalize: the prompt is tested without trim
ImageParams_normalize_untrimmed(p) ==
    IF Len(p.prompt) = 0 THEN Err("prompt must not be empty")
    ELSE LET model == IF p.model = None THEN Some(DEFAULT_IMAGE_MODEL) ELSE p.model
         IN  IF model[1] \notin IMAGE_MODELS THEN Err("invalid image model")
             ELSE LET size == IF p.size = None THEN Some(DEFAULT_IMAGE_SIZE) ELSE p.size
                  IN  IF size[1] \notin IMAGE_SIZES THEN Err("invalid image size")
                      ELSE Ok([p EXCEPT !.model = model, !.size = size])

ImageParams_normalize(p) ==
    IF Len(Trim(p.prompt)) = 0 THEN Err("prompt must not be empty")
    ELSE LET model == IF p.model = None THEN Some(DEFAULT_IMAGE_MODEL) ELSE p.model
         IN  IF model[1] \notin IMAGE_MODELS THEN Err("invalid image model")
             ELSE LET size == IF p.size = None THEN Some(DEFAULT_IMAGE_SIZE) ELSE p.size
                  IN  IF size[1] \notin IMAGE_SIZES THEN Err("invalid image size")
                      ELSE Ok([p EXCEPT !.model = model, !.size = size])

\* variant of VideoParams_normalize: the duration has no upper bound
VideoParams_normalize_no_upper_bound(p) ==
    IF Len(Trim(p.prompt)) = 0 THEN Err("prompt must not be empty")
    ELSE LET model == IF p.model = None THEN Some(DEFAULT_VIDEO_MODEL) ELSE p.model
         IN  IF model[1] \notin VIDEO_MODELS THEN Err("invalid video model")
             ELSE LET res == IF p.resolution = None
                             THEN Some(DEFAULT_VIDEO_RESOLUTION) ELSE p.resolution
                  IN  IF res[1] \notin VIDEO_RESOLUTIONS THEN Err("invalid resolution")
                      ELSE LET ratio == IF p.ratio = None
                                        THEN Some(DEFAULT_VIDEO_RATIO) ELSE p.ratio
                           IN  IF ratio[1] \notin VIDEO_RATIOS THEN Err("invalid ratio")
                               ELSE LET dur == IF p.duration = None
                                               THEN Some(DEFAULT_VIDEO_DURATION)
                                               ELSE p.duration
                                    IN  IF ~(dur[1] >= 2)
                                        THEN Err("duration must be 2-12 seconds")
                                        ELSE Ok([p EXCEPT !.model = model,
                                                          !.resolution = res,
                                                          !.ratio = ratio,
                                                          !.duration = dur])

VideoParams_normalize(p) ==
    IF Len(Trim(p.prompt)) = 0 THEN Err("prompt must not be empty")
    ELSE LET model == IF p.model = None THEN Some(DEFAULT_VIDEO_MODEL) ELSE p.model
         IN  IF model[1] \notin VIDEO_MODELS THEN Err("invalid video model")
             ELSE LET res == IF p.resolution = None
                             THEN Some(DEFAULT_VIDEO_RESOLUTION) ELSE p.resolution
                  IN  IF res[1] \notin VIDEO_RESOLUTIONS THEN Err("invalid resolution")
                      ELSE LET ratio == IF p.ratio = None
                                        THEN Some(DEFAULT_VIDEO_RATIO) ELSE p.ratio
                           IN  IF ratio[1] \notin VIDEO_RATIOS THEN Err("invalid ratio")
                               ELSE LET dur == IF p.duration = None
                                               THEN Some(DEFAULT_VIDEO_DURATION)
                                               ELSE p.duration
                                    IN  IF ~(dur[1] >= 2 /\ dur[1] <= 12)
                                        THEN Err("duration must be 2-12 seconds")
                                        ELSE Ok([p EXCEPT !.model = model,
                                                          !.resolution = res,
                                                          !.ratio = ratio,
                                                          !.duration = dur])

\* what the message of a normalize error lists after "Valid:": the constant
\* its bail! joins; the messages for the prompt and the duration list none
valid_named(err) ==
    CASE err = "invalid image model" -> IMAGE_MODELS
      [] err = "invalid image size"  -> IMAGE_SIZES
      [] err = "invalid video model" -> VIDEO_MODELS
      [] err = "invalid resolution"  -> VIDEO_RESOLUTIONS
      [] err = "invalid ratio"       -> VIDEO_RATIOS
      [] OTHER                       -> {}

\* ------------------------------------------------------------------------
\* Inputs offered to submit_image / submit_video
\* ------------------------------------------------------------------------
Prompts == { <<>>, <<" ">>, <<" ", "\t">>, <<"f", "o", "x">> }

ImageInputs ==
    [ prompt : Prompts,
      model  : { None, Some("bogus-model") },
      size   : { None, Some("1K"), Some("9K") } ]

VideoInputs ==
    [ prompt     : Prompts,
      model      : { None, Some("doubao-seedream-5-0-260128") },
      resolution : { None, Some("4K") },
      ratio      : { None, Some("2:1") },
      duration   : { None, Some(1), Some(12), Some(13), Some(20) } ]

\* serde_json::to_string(params): a JSON object, an unset Option is null
to_string(params) == [k \in DOMAIN params |->
                        IF k = "prompt" THEN Some(params[k]) ELSE params[k]]

\* serde_json::from_str(input)[key].as_str(): None for a missing key or null
as_str(json, key) == IF key \in DOMAIN json THEN json[key] ELSE None

\* ------------------------------------------------------------------------
\* State
\* ------------------------------------------------------------------------
VARIABLES
    tasks,        \* the tasks table: sequence of TaskRow, index = insertion order
    execs,        \* every executor spawned so far (tokio tasks), in spawn order
    app_handle,   \* TaskQueue.app_handle is Some
    on_complete,  \* TaskQueue.on_complete is Some
    submitted,    \* task ids for which "task:submitted" was emitted
    ret,          \* what the last submit_image / submit_video call returned
    jobs,         \* jobs the remote service has created so far
    faults,       \* store operations that have failed so far
    db_lock,      \* the executor holding the MutexGuard of the SharedDb, if any
    pending,      \* mcp_bridge PendingMap: correlation id -> the sender stored under it
    map_lock,     \* the connection holding the guard of the PendingMap, if any
    conns,        \* the bridge connections accepted so far (handle_connection tasks)
    emitted,      \* events the bridge has emitted to the WebView
    deferred,     \* payloads held by the tasks the mcp:response listener spawned
    client        \* the task connect_canvas_socket spawns in the tool host

task_vars == <<tasks, execs, app_handle, on_complete, submitted, ret, jobs, faults, db_lock>>
bridge_vars == <<pending, map_lock, conns, emitted, deferred, client>>
vars == <<tasks, execs, app_handle, on_complete, submitted, ret, jobs, faults, db_lock,
          pending, map_lock, conns, emitted, deferred, client>>

\* ------------------------------------------------------------------------
\* Db (db.rs)
\* ------------------------------------------------------------------------
\* a store operation that fails (db_ok is false) is counted
Faulted(db_ok) == faults' = IF db_ok THEN faults ELSE faults + 1

\* INSERT INTO tasks ...
insert_task(db, task) == Append(db, task)

\* UPDATE tasks SET status, output, ark_task_id, error WHERE id: all four
\* columns are overwritten by the arguments; no row matches an unknown id
\* variant of update_task: a NULL output leaves the stored output in place
update_task_keeping_output(db, id, status, output, ark_task_id, error) ==
    [i \in DOMAIN db |->
        IF db[i].id = id
        THEN [db[i] EXCEPT !.status = status, !.output = IF output = None THEN @ ELSE output,
                           !.ark_task_id = ark_task_id, !.error = error]
        ELSE db[i]]

update_task(db, id, status, output, ark_task_id, error) ==
    [i \in DOMAIN db |->
        IF db[i].id = id
        THEN [db[i] EXCEPT !.status = status, !.output = output,
                           !.ark_task_id = ark_task_id, !.error = error]
        ELSE db[i]]

\* SELECT ... WHERE id
get_task(db, id) ==
    IF \E i \in DOMAIN db : db[i].id = id
    THEN Some(db[CHOOSE i \in DOMAIN db : db[i].id = id])
    ELSE None

\* SELECT ... WHERE status='running'
\* variant of get_running_tasks: the failed rows are selected as well
get_running_and_failed_tasks(db) ==
    SelectSeq(db, LAMBDA t : t.status \in { "running", "failed" })

get_running_tasks(db) ==
    SelectSeq(db, LAMBDA r : r.status = "running")

\* ------------------------------------------------------------------------
\* TaskQueue (tasks/mod.rs)
\* ------------------------------------------------------------------------
\* uuid::Uuid::new_v4(): an id no row has yet
new_task_id == Len(tasks) + 1

\* the TaskRow built by create_task_row
\* variant of create_task_row: the new row starts in a status of its own
create_task_row_submitted(id, task_type, params) ==
    [ id          |-> id,
      task_type   |-> task_type,
      status      |-> "submitted",
      input       |-> to_string(params),
      output      |-> None,
      ark_task_id |-> None,
      error       |-> None ]

create_task_row(id, task_type, params) ==
    [ id          |-> id,
      task_type   |-> task_type,
      status      |-> "pending",
      input       |-> to_string(params),
      output      |-> None,
      ark_task_id |-> None,
      error       |-> None ]

\* the future handed to tokio::spawn by spawn_image / spawn_video: it owns
\* the TaskRow it was given; the fields after pc are the locals of execute
\* and the record of what this executor did
spawn(task, origin, run) ==
    [ task    |-> task,
      origin  |-> origin,
      run     |-> run,
      pc      |-> "start",
      ark     |-> None,
      elapsed |-> 0,
      polls   |-> 0,
      status  |-> None,
      url     |-> None,
      dims    |-> None,
      err     |-> None,
      remote  |-> {},
      term    |-> 0,
      updated |-> None,
      sinks   |-> <<>> ]

spawn_image(task, origin) == spawn(task, origin, "run_image_task")
spawn_video(task, origin) == spawn(task, origin, "run_video_task")

\* emit_submitted: only with an AppHandle
emit_submitted(task_id) ==
    IF app_handle THEN submitted \cup {task_id} ELSE submitted

submit_image(p, db_ok) ==
    /\ LET n == ImageParams_normalize(p)
       IN  IF ~n[1].ok
           THEN /\ db_ok
                /\ ret' = Err(n[1].err)
                /\ UNCHANGED <<tasks, execs, submitted>>
           ELSE IF ~db_ok
           THEN /\ ret' = Err("db")
                /\ UNCHANGED <<tasks, execs, submitted>>
           ELSE /\ Len(tasks) < MaxTasks
                /\ Len(execs) < MaxExecs
                /\ LET task == create_task_row(new_task_id, "image", n[1].val)
                   IN  /\ tasks' = insert_task(tasks, task)
                       /\ submitted' = emit_submitted(task.id)
                       /\ execs' = Append(execs, spawn_image(task, "submit"))
                       /\ ret' = Ok(task.id)
    /\ UNCHANGED <<app_handle, on_complete, jobs>>
    /\ Faulted(db_ok)

submit_video(p, db_ok) ==
    /\ LET n == VideoParams_normalize(p)
       IN  IF ~n[1].ok
           THEN /\ db_ok
                /\ ret' = Err(n[1].err)
                /\ UNCHANGED <<tasks, execs, submitted>>
           ELSE IF ~db_ok
           THEN /\ ret' = Err("db")
                /\ UNCHANGED <<tasks, execs, submitted>>
           ELSE /\ Len(tasks) < MaxTasks
                /\ Len(execs) < MaxExecs
                /\ LET task == create_task_row(new_task_id, "video", n[1].val)
                   IN  /\ tasks' = insert_task(tasks, task)
                       /\ submitted' = emit_submitted(task.id)
                       /\ execs' = Append(execs, spawn_video(task, "submit"))
                       /\ ret' = Ok(task.id)
    /\ UNCHANGED <<app_handle, on_complete, jobs>>
    /\ Faulted(db_ok)

\* variant of resume_spawns: a row of an unknown type is run as an image task
RECURSIVE resume_spawns_unknown_as_image(_)
resume_spawns_unknown_as_image(running) ==
    IF running = <<>> THEN <<>>
    ELSE LET task == Head(running)
             rest == resume_spawns_unknown_as_image(Tail(running))
         IN  IF task.task_type = "video" THEN <<spawn_video(task, "resume")>> \o rest
             ELSE <<spawn_image(task, "resume")>> \o rest

\* the executors resume_running_tasks spawns for the rows of the scan, in
\* scan order; a row of an unknown type is logged and skipped
RECURSIVE resume_spawns(_)
resume_spawns(running) ==
    IF running = <<>> THEN <<>>
    ELSE LET task == Head(running)
             rest == resume_spawns(Tail(running))
         IN  IF task.task_type = "image" THEN <<spawn_image(task, "resume")>> \o rest
             ELSE IF task.task_type = "video" THEN <<spawn_video(task, "resume")>> \o rest
             ELSE rest

resume_running_tasks(db_ok) ==
    /\ IF ~db_ok
       THEN UNCHANGED execs
       ELSE LET running == get_running_tasks(tasks)
            IN  /\ Len(execs) + Len(running) <= MaxExecs
                /\ execs' = execs \o resume_spawns(running)
    /\ UNCHANGED <<tasks, app_handle, on_complete, submitted, ret, jobs>>
    /\ Faulted(db_ok)

\* ------------------------------------------------------------------------
\* Remote generation service (ark/mod.rs, ark/types.rs) and the file system:
\* what a call can come back with
\* ------------------------------------------------------------------------
\* an anyhow error: the message, and the job handle a message quotes
E(msg) == [msg |-> msg, ark |-> None]
EArk(msg, ark) == [msg |-> msg, ark |-> ark]

Digits == { "0", "1", "2", "3", "4", "5", "6", "7", "8", "9" }
DigitVal(c) == CASE c = "0" -> 0 [] c = "1" -> 1 [] c = "2" -> 2 [] c = "3" -> 3
                 [] c = "4" -> 4 [] c = "5" -> 5 [] c = "6" -> 6 [] c = "7" -> 7
                 [] c = "8" -> 8 [] c = "9" -> 9

RECURSIVE DecVal(_)
DecVal(s) == IF s = <<>> THEN 0 ELSE DecVal(SubSeq(s, 1, Len(s) - 1)) * 10 + DigitVal(s[Len(s)])

\* the decimal digits of u32::MAX
U32_MAX_DIGITS == <<"4", "2", "9", "4", "9", "6", "7", "2", "9", "5">>

RECURSIVE StripZeros(_)
StripZeros(d) == IF Len(d) > 1 /\ Head(d) = "0" THEN StripZeros(Tail(d)) ELSE d

\* a digit string of the same length as U32_MAX_DIGITS that is greater
ExceedsU32(d) ==
    \E i \in 1..10 : /\ DigitVal(d[i]) > DigitVal(U32_MAX_DIGITS[i])
                     /\ \A j \in 1..(i - 1) : d[j] = U32_MAX_DIGITS[j]

\* str::parse::<u32>: an optional '+', then one or more digits, no overflow
parse_u32(s) ==
    LET d == IF s # <<>> /\ Head(s) = "+" THEN Tail(s) ELSE s
    IN  IF d = <<>> \/ (\E i \in DOMAIN d : d[i] \notin Digits) THEN None
        ELSE LET z == StripZeros(d)
             IN  IF Len(z) > 10 \/ (Len(z) = 10 /\ ExceedsU32(z)) THEN None
                 ELSE Some(DecVal(z))

\* size.split('x')
RECURSIVE split_x(_)
split_x(s) ==
    IF \A i \in DOMAIN s : s[i] # "x" THEN <<s>>
    ELSE LET k == CHOOSE i \in DOMAIN s : s[i] = "x" /\ \A j \in 1..(i - 1) : s[j] # "x"
         IN  <<SubSeq(s, 1, k - 1)>> \o split_x(SubSeq(s, k + 1, Len(s)))

\* image.rs parse_dimensions
parse_dimensions(size) ==
    LET parts == split_x(size)
    IN  IF Len(parts) = 2
        THEN LET w == parse_u32(parts[1])
                 h == parse_u32(parts[2])
             IN  IF w = None \/ h = None THEN None ELSE Some(<<w[1], h[1]>>)
        ELSE None

Base64Alphabet ==
    { "A", "Q", "g", "w", "a", "z", "0", "9", "+", "/" }

\* base64 STANDARD decode succeeds: groups of four, alphabet characters,
\* padding only at the end (at most two '=')
b64_valid(s) ==
    /\ Len(s) % 4 = 0
    /\ \A i \in DOMAIN s :
          \/ s[i] \in Base64Alphabet
          \/ s[i] = "=" /\ i > Len(s) - 2 /\ \A j \in (i + 1)..Len(s) : s[j] = "="

\* responses of POST /images/generations
ImageResponses ==
    { [success |-> FALSE, data |-> <<>>],
      [success |-> TRUE,  data |-> <<>>],
      [success |-> TRUE,  data |-> <<[b64_json |-> None, size |-> None]>>],
      [success |-> TRUE,  data |-> <<[b64_json |-> Some(<<"!">>), size |-> None]>>],
      [success |-> TRUE,  data |-> <<[b64_json |-> Some(<<"Q", "Q", "=", "=">>), size |-> None]>>],
      [success |-> TRUE,  data |-> <<[b64_json |-> Some(<<"Q", "Q", "=", "=">>),
                                      size |-> Some(<<"3", "2", "x", "1", "6">>)]>>],
      [success |-> TRUE,  data |-> <<[b64_json |-> Some(<<"Q", "Q", "=", "=">>),
                                      size |-> Some(<<"2", "K">>)]>>] }

\* responses of POST /contents/generations/tasks
CreateResponses ==
    { [success |-> FALSE, has_id |-> FALSE],
      [success |-> TRUE,  has_id |-> FALSE],
      [success |-> TRUE,  has_id |-> TRUE] }


\* responses of GET /contents/generations/tasks/{id}
PollResponses ==
    { [success |-> FALSE, status |-> None, video_url |-> None, message |-> None] }
    \cup
    [ success   : {TRUE},
      status    : { None, Some("queued"), Some("succeeded"), Some("failed"),
                    Some("expired"), Some("cancelled") },
      video_url : { None, Some("u") },
      message   : { None, Some("m") } ]

\* seconds the poll request itself takes, on top of the sleep
Latencies == { 0, 295 }

\* ------------------------------------------------------------------------
\* Executors
\* ------------------------------------------------------------------------
\* e is a tokio task of the running process
Live(e) == e \in DOMAIN execs

\* execute returned Err(err): run_*_task goes to its error branch
Fail(x, err) == [x EXCEPT !.pc = "fail", !.err = Some(err)]

\* run_*_task returned: the locals of execute and the error are dropped
Returned(x) == [x EXCEPT !.pc = "returned", !.ark = None, !.elapsed = 0,
                         !.polls = 0, !.status = None,
                         !.url = None, !.dims = None, !.err = None]

\* a stored input that is not JSON text
Garbled == [garbled |-> TRUE]

\* the error of the parse of the input: serde_json::from_str fails on text
\* that is not JSON; otherwise the prompt is missing or not a string
input_error(input) ==
    IF input = Garbled THEN E("invalid task input JSON")
    ELSE E("missing prompt in task input")

\* image.rs execute, up to the request to the service
image_execute_start(e, db_ok) ==
    /\ Live(e)
    /\ execs[e].pc = "start"
    /\ execs[e].run = "run_image_task"
    /\ LET x == execs[e]
           prompt == as_str(x.task.input, "prompt")
       IN  IF prompt = None
           THEN /\ db_ok
                /\ execs' = [execs EXCEPT ![e] = Fail(x, input_error(x.task.input))]
                /\ UNCHANGED tasks
           ELSE IF ~db_ok
           THEN /\ execs' = [execs EXCEPT ![e] = Fail(x, E("db"))]
                /\ UNCHANGED tasks
           ELSE /\ tasks' = update_task(tasks, x.task.id, "running", None, None, None)
                /\ execs' = [execs EXCEPT ![e] =
                                [x EXCEPT !.pc = "await_image",
                                          !.remote = @ \cup {<<"generate_image">>}]]
    /\ UNCHANGED <<app_handle, on_complete, submitted, ret, jobs>>
    /\ Faulted(db_ok)

\* ark.generate_image returns; first item, b64_json, base64 decode
image_generated(e, resp) ==
    /\ Live(e)
    /\ execs[e].pc = "await_image"
    /\ LET x == execs[e]
       IN  execs' = [execs EXCEPT ![e] =
              IF ~resp.success THEN Fail(x, E("ARK image API error"))
              ELSE IF resp.data = <<>> THEN Fail(x, E("empty image generation response"))
              ELSE IF resp.data[1].b64_json = None
                   THEN Fail(x, E("no b64_json in image response"))
              ELSE IF ~b64_valid(resp.data[1].b64_json[1])
                   THEN Fail(x, E("failed to decode base64 image"))
              ELSE LET size == resp.data[1].size
                       d == IF size = None THEN None ELSE parse_dimensions(size[1])
                   IN  [x EXCEPT !.pc = "fs_write",
                                 !.dims = IF d = None THEN Some(<<2048, 2048>>) ELSE d]]
    /\ UNCHANGED <<tasks, app_handle, on_complete, submitted, ret, jobs, faults>>

\* create_dir_all and fs::write of the asset (image and video)
asset_written(e, fs_ok) ==
    /\ Live(e)
    /\ execs[e].pc = "fs_write"
    /\ execs' = [execs EXCEPT ![e] =
                    IF fs_ok THEN [@ EXCEPT !.pc = "write_done"] ELSE Fail(@, E("io"))]
    /\ UNCHANGED <<tasks, app_handle, on_complete, submitted, ret, jobs, faults>>

\* the final update_task(.., "done", ..) of image.rs execute; a failing
\* insert_asset is only logged
image_execute_done(e, db_ok) ==
    /\ Live(e)
    /\ execs[e].pc = "write_done"
    /\ execs[e].run = "run_image_task"
    /\ LET x == execs[e]
           output == [assetPath |-> "asset", width |-> x.dims[1][1], height |-> x.dims[1][2]]
       IN  IF ~db_ok
           THEN /\ execs' = [execs EXCEPT ![e] = Fail(x, E("db"))]
                /\ UNCHANGED tasks
           ELSE /\ tasks' = update_task(tasks, x.task.id, "done", Some(output), None, None)
                /\ execs' = [execs EXCEPT ![e] = [Returned(x) EXCEPT !.term = @ + 1]]
    /\ UNCHANGED <<app_handle, on_complete, submitted, ret, jobs>>
    /\ Faulted(db_ok)

\* variant of video_execute_start: the request is sent with the row as it is
video_execute_start_request_first(e, db_ok) ==
    /\ Live(e)
    /\ execs[e].pc = "start"
    /\ execs[e].run = "run_video_task"
    /\ LET x == execs[e]
           prompt == as_str(x.task.input, "prompt")
       IN  IF prompt = None
           THEN /\ db_ok
                /\ execs' = [execs EXCEPT ![e] = Fail(x, input_error(x.task.input))]
           ELSE /\ db_ok
                /\ execs' = [execs EXCEPT ![e] =
                                [x EXCEPT !.pc = "await_create",
                                          !.remote = @ \cup {<<"create_video_task">>}]]
    /\ UNCHANGED <<tasks, app_handle, on_complete, submitted, ret, jobs>>
    /\ Faulted(db_ok)

\* video.rs execute, up to the create request to the service
video_execute_start(e, db_ok) ==
    /\ Live(e)
    /\ execs[e].pc = "start"
    /\ execs[e].run = "run_video_task"
    /\ LET x == execs[e]
           prompt == as_str(x.task.input, "prompt")
       IN  IF prompt = None
           THEN /\ db_ok
                /\ execs' = [execs EXCEPT ![e] = Fail(x, input_error(x.task.input))]
                /\ UNCHANGED tasks
           ELSE IF ~db_ok
           THEN /\ execs' = [execs EXCEPT ![e] = Fail(x, E("db"))]
                /\ UNCHANGED tasks
           ELSE /\ tasks' = update_task(tasks, x.task.id, "running", None, None, None)
                /\ execs' = [execs EXCEPT ![e] =
                                [x EXCEPT !.pc = "await_create",
                                          !.remote = @ \cup {<<"create_video_task">>}]]
    /\ UNCHANGED <<app_handle, on_complete, submitted, ret, jobs>>
    /\ Faulted(db_ok)

\* ark.create_video_task returns: the service has created job number jobs + 1
\* when it answers with success, and that number is the id it reports
video_created(e, resp) ==
    /\ Live(e)
    /\ execs[e].pc = "await_create"
    /\ LET x == execs[e]
       IN  execs' = [execs EXCEPT ![e] =
              IF ~resp.success THEN Fail(x, E("ARK video create API error"))
              ELSE IF ~resp.has_id THEN Fail(x, E("no task ID in video create response"))
              ELSE [x EXCEPT !.pc = "persist_handle", !.ark = Some(jobs + 1)]]
    /\ jobs' = IF resp.success /\ resp.has_id THEN jobs + 1 ELSE jobs
    /\ UNCHANGED <<tasks, app_handle, on_complete, submitted, ret, faults>>

\* variant of video_persist_handle: polling starts without the write
video_persist_handle_skipped(e, db_ok) ==
    /\ Live(e)
    /\ execs[e].pc = "persist_handle"
    /\ db_ok
    /\ execs' = [execs EXCEPT ![e] = [@ EXCEPT !.pc = "poll", !.elapsed = 0]]
    /\ UNCHANGED <<tasks, app_handle, on_complete, submitted, ret, jobs>>
    /\ Faulted(db_ok)

\* update_task(.., "running", None, Some(ark_task_id), None); start = now
video_persist_handle(e, db_ok) ==
    /\ Live(e)
    /\ execs[e].pc = "persist_handle"
    /\ LET x == execs[e]
       IN  IF ~db_ok
           THEN /\ execs' = [execs EXCEPT ![e] = Fail(x, E("db"))]
                /\ UNCHANGED tasks
           ELSE /\ tasks' = update_task(tasks, x.task.id, "running", None, x.ark, None)
                /\ execs' = [execs EXCEPT ![e] = [x EXCEPT !.pc = "poll", !.elapsed = 0]]
    /\ UNCHANGED <<app_handle, on_complete, submitted, ret, jobs>>
    /\ Faulted(db_ok)

\* variant of poll_result: an answer without a status ends execute
poll_result_absent_status_fatal(x, resp) ==
    IF ~resp.success THEN Fail(x, E("ARK video status API error"))
    ELSE IF resp.status = Some("succeeded")
    THEN IF resp.video_url = None
         THEN Fail(x, E("succeeded but no video URL"))
         ELSE [x EXCEPT !.pc = "download", !.url = resp.video_url]
    ELSE IF resp.status \in { Some("failed"), Some("expired"), Some("cancelled") }
    THEN Fail(x, [msg |-> "video task " \o resp.status[1],
                  detail |-> IF resp.message = None THEN "unknown error"
                             ELSE resp.message[1],
                  ark |-> x.ark])
    ELSE IF resp.status = None THEN Fail(x, E("poll returned no status"))
    ELSE x

\* what one answer of get_video_task does to the executor
poll_result(x, resp) ==
    IF ~resp.success THEN Fail(x, E("ARK video status API error"))
    ELSE IF resp.status = Some("succeeded")
    THEN IF resp.video_url = None
         THEN Fail(x, E("succeeded but no video URL"))
         ELSE [x EXCEPT !.pc = "download", !.url = resp.video_url]
    ELSE IF resp.status \in { Some("failed"), Some("expired"), Some("cancelled") }
    THEN Fail(x, [msg |-> "video task " \o resp.status[1],
                  detail |-> IF resp.message = None THEN "unknown error"
                             ELSE resp.message[1],
                  ark |-> x.ark])
    ELSE x

\* variant of video_poll: the sleep of a turn is left out of the time passed
video_poll_sleep_uncounted(e, resp, latency) ==
    /\ Live(e)
    /\ execs[e].pc = "poll"
    /\ LET x == execs[e]
       IN  execs' = [execs EXCEPT ![e] =
              IF x.elapsed > POLL_TIMEOUT
              THEN Fail(x, EArk("video generation timed out after 600s", x.ark))
              ELSE poll_result([x EXCEPT !.elapsed = @ + latency,
                                         !.polls = @ + 1,
                                         !.status = Some(resp),
                                         !.remote = @ \cup {<<"get_video_task", x.ark[1]>>}],
                               resp)]
    /\ UNCHANGED <<tasks, app_handle, on_complete, submitted, ret, jobs, faults>>

\* one turn of the poll loop: timeout check, sleep, get_video_task, match;
\* elapsed is start.elapsed() as the next check will read it, polls the
\* turns that reached get_video_task, status the answer last received
video_poll(e, resp, latency) ==
    /\ Live(e)
    /\ execs[e].pc = "poll"
    /\ LET x == execs[e]
       IN  execs' = [execs EXCEPT ![e] =
              IF x.elapsed > POLL_TIMEOUT
              THEN Fail(x, EArk("video generation timed out after 600s", x.ark))
              ELSE poll_result([x EXCEPT !.elapsed = @ + POLL_INTERVAL + latency,
                                         !.polls = @ + 1,
                                         !.status = Some(resp),
                                         !.remote = @ \cup {<<"get_video_task", x.ark[1]>>}],
                               resp)]
    /\ UNCHANGED <<tasks, app_handle, on_complete, submitted, ret, jobs, faults>>

\* http.get(video_url).send().bytes()
video_downloaded(e, net_ok) ==
    /\ Live(e)
    /\ execs[e].pc = "download"
    /\ execs' = [execs EXCEPT ![e] =
                    IF net_ok THEN [@ EXCEPT !.pc = "fs_write"]
                    ELSE Fail(@, E("failed to download video"))]
    /\ UNCHANGED <<tasks, app_handle, on_complete, submitted, ret, jobs, faults>>

\* the final update_task(.., "done", ..) of video.rs execute
video_execute_done(e, db_ok) ==
    /\ Live(e)
    /\ execs[e].pc = "write_done"
    /\ execs[e].run = "run_video_task"
    /\ LET x == execs[e]
           output == [assetPath |-> "asset", width |-> 1280, height |-> 720]
       IN  IF ~db_ok
           THEN /\ execs' = [execs EXCEPT ![e] = Fail(x, E("db"))]
                /\ UNCHANGED tasks
           ELSE /\ tasks' = update_task(tasks, x.task.id, "done", Some(output), x.ark, None)
                /\ execs' = [execs EXCEPT ![e] = [Returned(x) EXCEPT !.term = @ + 1]]
    /\ UNCHANGED <<app_handle, on_complete, submitted, ret, jobs>>
    /\ Faulted(db_ok)

\* status of the row of task id, as a reader of the store sees it
status_of(db, id) == IF get_task(db, id) = None THEN "absent" ELSE get_task(db, id)[1].status

\* variant of run_task_failed: the row is left as it is
run_task_failed_unrecorded(e, db_ok, via) ==
    LET x == execs[e]
    IN  /\ tasks' = tasks
        /\ execs' = [execs EXCEPT ![e] =
              [Returned(x) EXCEPT
                        !.sinks = IF app_handle
                                  THEN Append(@, [sink |-> "task:complete", via |-> via,
                                                  status |-> "failed",
                                                  stored |-> status_of(tasks, x.task.id)])
                                  ELSE @]]

\* the error branch shared by run_image_task and run_video_task: the failed
\* write (its own failure is ignored), then the "task:complete" event
run_task_failed(e, db_ok, via) ==
    LET x == execs[e]
        db == IF db_ok
              THEN update_task(tasks, x.task.id, "failed", None, None, x.err)
              ELSE tasks
    IN  /\ tasks' = db
        /\ execs' = [execs EXCEPT ![e] =
              [Returned(x) EXCEPT
                        !.term = IF db_ok THEN @ + 1 ELSE @,
                        !.sinks = IF app_handle
                                  THEN Append(@, [sink |-> "task:complete", via |-> via,
                                                  status |-> "failed",
                                                  stored |-> status_of(db, x.task.id)])
                                  ELSE @]]

run_image_task_failed(e, db_ok) ==
    /\ Live(e)
    /\ execs[e].pc = "fail"
    /\ execs[e].run = "run_image_task"
    /\ run_task_failed(e, db_ok, "run_image_task")
    /\ UNCHANGED <<app_handle, on_complete, submitted, ret, jobs>>
    /\ Faulted(db_ok)

run_video_task_failed(e, db_ok) ==
    /\ Live(e)
    /\ execs[e].pc = "fail"
    /\ execs[e].run = "run_video_task"
    /\ run_task_failed(e, db_ok, "run_video_task")
    /\ UNCHANGED <<app_handle, on_complete, submitted, ret, jobs>>
    /\ Faulted(db_ok)

\* the tail of the future of spawn_image / spawn_video: re-read the row and,
\* if there is one, emit "task:complete" and then call on_complete
\* variant of complete: a failed emit keeps the callback from being called
complete_callback_if_emitted(e, db_ok, emit_ok, via) ==
    LET x == execs[e]
        updated == IF db_ok THEN get_task(tasks, x.task.id) ELSE None
        emit == IF updated # None /\ app_handle
                THEN <<[sink |-> "task:complete", via |-> via, status |-> updated[1].status,
                        stored |-> updated[1].status, row |-> updated, ok |-> emit_ok]>>
                ELSE <<>>
        cb == IF updated # None /\ on_complete /\ (app_handle => emit_ok)
              THEN <<[sink |-> "on_complete", via |-> via, status |-> updated[1].status,
                      stored |-> updated[1].status, row |-> updated]>>
              ELSE <<>>
    IN  execs' = [execs EXCEPT ![e] =
                    [x EXCEPT !.pc = "finished", !.updated = updated,
                              !.sinks = @ \o emit \o cb]]

complete(e, db_ok, emit_ok, via) ==
    LET x == execs[e]
        updated == IF db_ok THEN get_task(tasks, x.task.id) ELSE None
        emit == IF updated # None /\ app_handle
                THEN <<[sink |-> "task:complete", via |-> via, status |-> updated[1].status,
                        stored |-> updated[1].status, row |-> updated, ok |-> emit_ok]>>
                ELSE <<>>
        cb == IF updated # None /\ on_complete
              THEN <<[sink |-> "on_complete", via |-> via, status |-> updated[1].status,
                      stored |-> updated[1].status, row |-> updated]>>
              ELSE <<>>
    IN  execs' = [execs EXCEPT ![e] =
                    [x EXCEPT !.pc = "finished", !.updated = updated,
                              !.sinks = @ \o emit \o cb]]

spawn_image_complete(e, db_ok, emit_ok) ==
    /\ Live(e)
    /\ execs[e].pc = "returned"
    /\ execs[e].run = "run_image_task"
    /\ complete(e, db_ok, emit_ok, "spawn_image")
    /\ UNCHANGED <<tasks, app_handle, on_complete, submitted, ret, jobs>>
    /\ Faulted(db_ok)

spawn_video_complete(e, db_ok, emit_ok) ==
    /\ Live(e)
    /\ execs[e].pc = "returned"
    /\ execs[e].run = "run_video_task"
    /\ complete(e, db_ok, emit_ok, "spawn_video")
    /\ UNCHANGED <<tasks, app_handle, on_complete, submitted, ret, jobs>>
    /\ Faulted(db_ok)

\* ------------------------------------------------------------------------
\* Specification
\* ------------------------------------------------------------------------
\* the tasks table the process finds when it starts: empty, or with the row
\* an earlier run of the process was interrupted on; such a row was written
\* by create_task_row and the updates of an executor of that run
StartParams(task_type) ==
    IF task_type = "image"
    THEN ImageParams_normalize([prompt |-> <<"f", "o", "x">>, model |-> None,
                                size |-> None])[1].val
    ELSE VideoParams_normalize([prompt |-> <<"f", "o", "x">>, model |-> None,
                                resolution |-> None, ratio |-> None,
                                duration |-> None])[1].val

Interrupted(task_type, ark_task_id) ==
    LET running == update_task(<<create_task_row(1, task_type, StartParams(task_type))>>,
                               1, "running", None, None, None)
    IN  IF ark_task_id = None THEN running
        ELSE update_task(running, 1, "running", None, ark_task_id, None)

StartStores ==
    { <<>>, Interrupted("image", None), Interrupted("video", Some(1)) }

\* job ids a table refers to were given out by the service
JobsOf(db) == Cardinality({ i \in DOMAIN db : db[i].ark_task_id # None })

\* the tool host has not connected to the bridge
NoClient ==
    [ pc      |-> "off",   \* off, recv (at rx.recv()), read (at read_line), closed
      conn    |-> 0,       \* the bridge connection of its stream
      callers |-> <<>>,    \* the tool calls made so far, with their locals
      queue   |-> <<>>,    \* the mpsc channel of CanvasIpcRequest
      wire    |-> <<>>,    \* lines written to the stream the bridge has not read
      cur     |-> None,    \* the request the loop is handling
      sent    |-> 0,       \* requests written so far
      read    |-> 0,       \* response lines read so far
      replies |-> <<>> ]   \* what was sent through the reply channels

Init ==
    /\ tasks \in StartStores
    /\ execs = <<>>
    /\ app_handle \in BOOLEAN
    /\ on_complete \in BOOLEAN
    /\ submitted = {}
    /\ ret = None
    /\ jobs = JobsOf(tasks)
    /\ faults = 0
    /\ db_lock = None
    /\ pending = {}
    /\ map_lock = None
    /\ deferred = <<>>
    /\ client = NoClient
    /\ conns = <<>>
    /\ emitted = {}

EmitOutcomes == IF app_handle THEN BOOLEAN ELSE {TRUE}

\* the store may fail while the failures so far are below MaxFaults
DbOutcomes == IF faults < MaxFaults THEN BOOLEAN ELSE {TRUE}

\* one step of the system, the callers and the environment drawing from
\* the given sets
Step(image_inputs, video_inputs, image_resps, create_resps, poll_resps, latencies) ==
    \/ \E p \in image_inputs, db_ok \in DbOutcomes : submit_image(p, db_ok)
          /\ UNCHANGED <<bridge_vars, db_lock>>
    \/ \E p \in video_inputs, db_ok \in DbOutcomes : submit_video(p, db_ok)
          /\ UNCHANGED <<bridge_vars, db_lock>>
    \/ \E db_ok \in DbOutcomes : resume_running_tasks(db_ok)
          /\ UNCHANGED <<bridge_vars, db_lock>>
    \/ \E e \in DOMAIN execs, db_ok \in DbOutcomes : image_execute_start(e, db_ok)
          /\ UNCHANGED <<bridge_vars, db_lock>>
    \/ \E e \in DOMAIN execs, resp \in image_resps : image_generated(e, resp)
          /\ UNCHANGED <<bridge_vars, db_lock>>
    \/ \E e \in DOMAIN execs, fs_ok \in BOOLEAN : asset_written(e, fs_ok)
          /\ UNCHANGED <<bridge_vars, db_lock>>
    \/ \E e \in DOMAIN execs, db_ok \in DbOutcomes : image_execute_done(e, db_ok)
          /\ UNCHANGED <<bridge_vars, db_lock>>
    \/ \E e \in DOMAIN execs, db_ok \in DbOutcomes : run_image_task_failed(e, db_ok)
          /\ UNCHANGED <<bridge_vars, db_lock>>
    \/ \E e \in DOMAIN execs, db_ok \in DbOutcomes, emit_ok \in EmitOutcomes :
          spawn_image_complete(e, db_ok, emit_ok)
          /\ UNCHANGED <<bridge_vars, db_lock>>
    \/ \E e \in DOMAIN execs, db_ok \in DbOutcomes : video_execute_start(e, db_ok)
          /\ UNCHANGED <<bridge_vars, db_lock>>
    \/ \E e \in DOMAIN execs, resp \in create_resps : video_created(e, resp)
          /\ UNCHANGED <<bridge_vars, db_lock>>
    \/ \E e \in DOMAIN execs, db_ok \in DbOutcomes : video_persist_handle(e, db_ok)
          /\ UNCHANGED <<bridge_vars, db_lock>>
    \/ \E e \in DOMAIN execs, resp \in poll_resps, latency \in latencies :
          video_poll(e, resp, latency)
          /\ UNCHANGED <<bridge_vars, db_lock>>
    \/ \E e \in DOMAIN execs, net_ok \in BOOLEAN : video_downloaded(e, net_ok)
          /\ UNCHANGED <<bridge_vars, db_lock>>
    \/ \E e \in DOMAIN execs, db_ok \in DbOutcomes : video_execute_done(e, db_ok)
          /\ UNCHANGED <<bridge_vars, db_lock>>
    \/ \E e \in DOMAIN execs, db_ok \in DbOutcomes : run_video_task_failed(e, db_ok)
          /\ UNCHANGED <<bridge_vars, db_lock>>
    \/ \E e \in DOMAIN execs, db_ok \in DbOutcomes, emit_ok \in EmitOutcomes :
          spawn_video_complete(e, db_ok, emit_ok)
          /\ UNCHANGED <<bridge_vars, db_lock>>

\* the orchestration under concurrency: valid submissions, one failing and
\* one succeeding answer per remote call, slow polls
SomeImageInputs == { [prompt |-> <<"f", "o", "x">>, model |-> None, size |-> None] }
SomeVideoInputs == { [prompt |-> <<"f", "o", "x">>, model |-> None, resolution |-> None,
                      ratio |-> None, duration |-> None] }
SomeImageResponses ==
    { [success |-> FALSE, data |-> <<>>],
      [success |-> TRUE,  data |-> <<[b64_json |-> Some(<<"Q", "Q", "=", "=">>), size |-> None]>>] }
SomeCreateResponses == { [success |-> FALSE, has_id |-> FALSE], [success |-> TRUE, has_id |-> TRUE] }
SomePollResponses ==
    { [success |-> TRUE, status |-> Some("running"), video_url |-> None, message |-> None],
      [success |-> TRUE, status |-> Some("succeeded"), video_url |-> Some("u"), message |-> None],
      [success |-> TRUE, status |-> Some("failed"), video_url |-> None, message |-> Some("m")] }
SlowLatencies == { 295 }

Next == Step(SomeImageInputs, SomeVideoInputs, SomeImageResponses, SomeCreateResponses,
             SomePollResponses, SlowLatencies)

Spec == Init /\ [][Next]_vars

\* the submissions alone, over every combination of the input values
NextSubmit ==
    \/ \E p \in ImageInputs, db_ok \in DbOutcomes : submit_image(p, db_ok)
          /\ UNCHANGED <<bridge_vars, db_lock>>
    \/ \E p \in VideoInputs, db_ok \in DbOutcomes : submit_video(p, db_ok)
          /\ UNCHANGED <<bridge_vars, db_lock>>

SpecSubmit == Init /\ [][NextSubmit]_vars

\* ------------------------------------------------------------------------
\* Submissions whose optional fields are unset, set to a value of the
\* enumeration other than the default, or set to a value outside it
\* ------------------------------------------------------------------------
NormalizePrompts == { <<>>, <<" ", "\t">>, <<" ", "f">> }

NormalizeImageInputs ==
    [ prompt : NormalizePrompts,
      model  : { None, Some("doubao-seedream-4-0-250828"), Some("bogus-model") },
      size   : { None, Some("1K"), Some("9K") } ]

NormalizeVideoInputs ==
    [ prompt     : NormalizePrompts,
      model      : { None, Some("doubao-seedance-1-0-pro-250528"),
                     Some("doubao-seedream-5-0-260128") },
      resolution : { None, Some("1080p"), Some("4K") },
      ratio      : { None, Some("1:1"), Some("2:1") },
      duration   : { None, Some(1), Some(2), Some(12), Some(13) } ]

NextNormalize ==
    \/ \E p \in NormalizeImageInputs, db_ok \in DbOutcomes : submit_image(p, db_ok)
          /\ UNCHANGED <<bridge_vars, db_lock>>
    \/ \E p \in NormalizeVideoInputs, db_ok \in DbOutcomes : submit_video(p, db_ok)
          /\ UNCHANGED <<bridge_vars, db_lock>>

\* an app with an empty tasks table
InitNormalize == Init /\ tasks = <<>> /\ app_handle /\ ~on_complete

SpecNormalize == InitNormalize /\ [][NextNormalize]_vars

\* ------------------------------------------------------------------------
\* Resume at startup over the tables an earlier run can have left
\* ------------------------------------------------------------------------
\* parameters a row was stored with: normalized ones, or ones stored before
\* the model list changed
LegacyImageParams ==
    [prompt |-> <<"f", "o", "x">>, model |-> Some("bogus-model"), size |-> Some("2K")]

\* a row as create_task_row and the updates of an executor left it; a row of
\* a type this build does not know was written by another build
StoredRow(id, task_type, params, status) ==
    LET created == <<create_task_row(id, task_type, params)>>
        running == update_task(created, id, "running", None, None, None)
    IN  IF status = "pending" THEN created[1]
        ELSE IF status = "running" THEN running[1]
        ELSE IF status = "done"
        THEN update_task(running, id, "done", Some([assetPath |-> "asset"]), None, None)[1]
        ELSE update_task(running, id, "failed", None, None, Some(E("m")))[1]

StoredRows(id) ==
    { StoredRow(id, k, StartParams(k), st) :
        k \in { "image", "video", "audio" }, st \in { "pending", "running", "done", "failed" } }
    \cup { StoredRow(id, "image", LegacyImageParams, "running") }

ResumeStores ==
    { <<>> } \cup { <<r>> : r \in StoredRows(1) }
             \cup { <<r1, r2>> : r1 \in StoredRows(1), r2 \in StoredRows(2) }

InitResume ==
    /\ tasks \in ResumeStores
    /\ execs = <<>>
    /\ app_handle \in BOOLEAN
    /\ on_complete \in BOOLEAN
    /\ submitted = {}
    /\ ret = None
    /\ jobs = JobsOf(tasks)
    /\ faults = 0
    /\ db_lock = None
    /\ pending = {}
    /\ map_lock = None
    /\ deferred = <<>>
    /\ client = NoClient
    /\ conns = <<>>
    /\ emitted = {}

NextResume ==
    \/ \E db_ok \in DbOutcomes : resume_running_tasks(db_ok)
          /\ UNCHANGED <<bridge_vars, db_lock>>

SpecResume == InitResume /\ [][NextResume]_vars

\* ------------------------------------------------------------------------
\* Cross-process bridge (mcp_bridge.rs)
\* ------------------------------------------------------------------------
\* a line a client sends: whether its bytes are UTF-8, whether the text is
\* JSON, and the members of the object it holds
Line(utf8, json, id, method, params) ==
    [utf8 |-> utf8, json |-> json, id |-> id, method |-> method, params |-> params]

CorrelationIds == { "req-1", "req-2" }
Methods == { "canvas_read", "canvas_batch", "canvas_delete" }

Lines ==
    { Line(TRUE, TRUE, Some(r), Some(m), TRUE) : r \in CorrelationIds, m \in Methods }
    \cup { Line(TRUE, TRUE, Some(r), Some("canvas_read"), FALSE) : r \in CorrelationIds }
    \cup { Line(TRUE, TRUE, None, Some("canvas_read"), TRUE),
           Line(TRUE, FALSE, None, None, FALSE),
           Line(FALSE, FALSE, None, None, FALSE) }

\* serde_json::from_str::<BridgeRequest>: every member of the struct is
\* required
from_str(line) ==
    IF line.json /\ line.id # None /\ line.method # None /\ line.params
    THEN Ok([id |-> line.id[1], method |-> line.method[1]])
    ELSE Err("Invalid request JSON")

\* the struct BridgeResponse
BridgeResponse(id, result, error) == [id |-> id, result |-> result, error |-> error]

\* variant of resp_line: members that are None are written as null
resp_line_with_nulls(resp) ==
    [k \in { "id", "result", "error" } |->
        IF k = "id" THEN Some(resp.id) ELSE IF k = "result" THEN resp.result ELSE resp.error]

\* serde_json::to_string(&resp): the frame's members; result and error are
\* skipped when None
resp_line(resp) ==
    [k \in { "id" } \cup (IF resp.result # None THEN { "result" } ELSE {})
                    \cup (IF resp.error # None THEN { "error" } ELSE {}) |->
        IF k = "id" THEN resp.id ELSE IF k = "result" THEN resp.result[1] ELSE resp.error[1]]

\* the payloads of mcp:response events: McpResponseEvent, or text that does
\* not parse as one
AckResults == { "a", "b" }
AckPayloads ==
    { [json |-> TRUE, id |-> r, result |-> v] : r \in CorrelationIds, v \in AckResults }
    \cup { [json |-> FALSE, id |-> "", result |-> ""] }

\* a oneshot receiver: open, filled with a value, closed (its sender was
\* dropped unsent), or dropped by its owner
Rx(st, val) == [st |-> st, val |-> val]

\* the sender of the request connection c is handling: it is that request's
\* k-th frame
Tx(c) == <<c, Len(conns[c].inp)>>

\* dropping the senders in txs unsent closes the receivers still open
drop_senders(cs, txs) ==
    [c \in DOMAIN cs |->
        IF <<c, Len(cs[c].inp)>> \in txs /\ cs[c].rx.st = "open"
        THEN [cs[c] EXCEPT !.rx = Rx("closed", "")]
        ELSE cs[c]]

\* tx.send(v): fills the receiver if it is still open
send(cs, tx, v) ==
    [c \in DOMAIN cs |->
        IF <<c, Len(cs[c].inp)>> = tx /\ cs[c].rx.st = "open"
        THEN [cs[c] EXCEPT !.rx = Rx("filled", v)]
        ELSE cs[c]]

\* HashMap::insert and HashMap::remove on the pending map
map_insert(map, id, tx) == { en \in map : en.id # id } \cup { [id |-> id, tx |-> tx] }
\* variant of map_remove: HashMap::clear, every entry is removed
map_clear(map, id) == {}
map_remove(map, id) == { en \in map : en.id # id }
map_get(map, id) == { en.tx : en \in { x \in map : x.id = id } }

\* listener.accept() and the spawn of handle_connection
accept ==
    /\ Len(conns) < MaxConns
    /\ conns' = Append(conns, [pc |-> "read", inp |-> <<>>, out |-> <<>>,
                               req |-> None, rx |-> Rx("none", "")])
    /\ UNCHANGED <<pending, emitted>>

\* variant of respond: the loop continues without writing the frame
respond_nothing(cs, c, resp, write_ok) ==
    [cs EXCEPT ![c] = [@ EXCEPT !.pc = "read", !.req = None, !.rx = Rx("none", "")]]

\* variant of respond: the response line is written twice
respond_twice(cs, c, resp, write_ok) ==
    [cs EXCEPT ![c] =
        IF write_ok
        THEN [@ EXCEPT !.pc = "read", !.out = @ \o <<resp_line(resp), resp_line(resp)>>,
                       !.req = None, !.rx = Rx("none", "")]
        ELSE [@ EXCEPT !.pc = "closed", !.req = None, !.rx = Rx("none", "")]]

\* writer.write_all of a response line and the return to the head of the
\* loop; a failed write ends handle_connection by `?`
respond(cs, c, resp, write_ok) ==
    [cs EXCEPT ![c] =
        IF write_ok
        THEN [@ EXCEPT !.pc = "read", !.out = Append(@, resp_line(resp)),
                       !.req = None, !.rx = Rx("none", "")]
        ELSE [@ EXCEPT !.pc = "closed", !.req = None, !.rx = Rx("none", "")]]

\* read_line at the head of the loop, the parse of the line and, for a
\* request, the insert of its sender into the pending map
read_line(c, line, write_ok) ==
    /\ c \in DOMAIN conns
    /\ conns[c].pc = "read"
    /\ Len(conns[c].inp) < MaxFrames
    /\ LET x == [conns[c] EXCEPT !.inp = Append(@, line)]
           cs == [conns EXCEPT ![c] = x]
           parsed == from_str(line)
       IN  IF ~line.utf8
           THEN /\ write_ok
                /\ conns' = [cs EXCEPT ![c].pc = "closed"]
                /\ pending' = pending
           ELSE IF ~parsed[1].ok
           THEN /\ conns' = respond(cs, c, BridgeResponse("unknown", None,
                                                          Some(parsed[1].err)), write_ok)
                /\ pending' = pending
           ELSE /\ write_ok
                /\ pending' = map_insert(pending, parsed[1].val.id, <<c, Len(x.inp)>>)
                /\ conns' = [drop_senders(cs, map_get(pending, parsed[1].val.id))
                                EXCEPT ![c].pc = "emit", ![c].req = Some(parsed[1].val),
                                       ![c].rx = Rx("open", "")]
    /\ UNCHANGED emitted

\* read_line returned 0 bytes: the client closed its end
read_eof(c) ==
    /\ c \in DOMAIN conns
    /\ conns[c].pc = "read"
    /\ conns' = [conns EXCEPT ![c].pc = "done"]
    /\ UNCHANGED <<pending, emitted>>

\* match req.method: the emit to the WebView, or the unknown method branch
emit(c, emit_ok) ==
    /\ c \in DOMAIN conns
    /\ conns[c].pc = "emit"
    /\ LET req == conns[c].req[1]
       IN  IF req.method = "canvas_read" \/ req.method = "canvas_batch"
           THEN IF emit_ok
                THEN /\ emitted' = emitted \cup { <<req.method, req.id>> }
                     /\ conns' = [conns EXCEPT ![c].pc = "wait"]
                ELSE /\ emitted' = emitted
                     /\ conns' = [conns EXCEPT ![c].pc = "emit_failed"]
           ELSE /\ emit_ok
                /\ emitted' = emitted
                /\ conns' = [conns EXCEPT ![c].pc = "unknown"]
    /\ UNCHANGED pending

\* the branch `other`: the entry under the id is removed and an error
\* written
unknown_method(c, write_ok) ==
    /\ c \in DOMAIN conns
    /\ conns[c].pc = "unknown"
    /\ LET req == conns[c].req[1]
       IN  /\ pending' = map_remove(pending, req.id)
           /\ conns' = respond(drop_senders(conns, map_get(pending, req.id)), c,
                               BridgeResponse(req.id, None, Some("Unknown method")),
                               write_ok)
    /\ UNCHANGED emitted

\* if let Err(e) = emit_result
emit_failed(c, write_ok) ==
    /\ c \in DOMAIN conns
    /\ conns[c].pc = "emit_failed"
    /\ LET req == conns[c].req[1]
       IN  /\ pending' = map_remove(pending, req.id)
           /\ conns' = respond(drop_senders(conns, map_get(pending, req.id)), c,
                               BridgeResponse(req.id, None, Some("Failed to emit event")),
                               write_ok)
    /\ UNCHANGED emitted

\* timeout(30 s, rx) resolved Ok(Ok(result))
recv(c, write_ok) ==
    /\ c \in DOMAIN conns
    /\ conns[c].pc = "wait"
    /\ conns[c].rx.st = "filled"
    /\ conns' = respond(conns, c, BridgeResponse(conns[c].req[1].id,
                                                 Some(conns[c].rx.val), None), write_ok)
    /\ UNCHANGED <<pending, emitted>>

\* timeout(30 s, rx) resolved Ok(Err(_)): the sender was dropped
recv_closed(c, write_ok) ==
    /\ c \in DOMAIN conns
    /\ conns[c].pc = "wait"
    /\ conns[c].rx.st = "closed"
    /\ conns' = respond(conns, c, BridgeResponse(conns[c].req[1].id, None,
                                                 Some("Response channel closed")), write_ok)
    /\ UNCHANGED <<pending, emitted>>

\* timeout(30 s, rx) resolved Err(Elapsed): the receiver was still open when
\* the 30 seconds were over; it is dropped with the timeout future
elapsed(c) ==
    /\ c \in DOMAIN conns
    /\ conns[c].pc = "wait"
    /\ conns[c].rx.st = "open"
    /\ conns' = [conns EXCEPT ![c].pc = "timed_out", ![c].rx = Rx("dropped", "")]
    /\ UNCHANGED <<pending, emitted>>

\* variant of timeout_cleanup: the entry is left in the map
timeout_no_cleanup(c, write_ok) ==
    /\ c \in DOMAIN conns
    /\ conns[c].pc = "timed_out"
    /\ conns' = respond(conns, c, BridgeResponse(conns[c].req[1].id, None,
                                                 Some("Request timed out (30s)")), write_ok)
    /\ UNCHANGED <<pending, emitted>>

\* the Err(_) arm: the entry under the id is removed and Timeout written
timeout_cleanup(c, write_ok) ==
    /\ c \in DOMAIN conns
    /\ conns[c].pc = "timed_out"
    /\ LET req == conns[c].req[1]
       IN  /\ pending' = map_remove(pending, req.id)
           /\ conns' = respond(drop_senders(conns, map_get(pending, req.id)), c,
                               BridgeResponse(req.id, None, Some("Request timed out (30s)")),
                               write_ok)
    /\ UNCHANGED emitted

\* variant of mcp_response: the sender is looked up and used, its entry stays
mcp_response_keeps_entry(payload) ==
    /\ IF ~payload.json
       THEN UNCHANGED <<pending, conns>>
       ELSE /\ pending' = pending
            /\ conns' = IF map_get(pending, payload.id) = {} THEN conns
                        ELSE send(conns, CHOOSE tx \in map_get(pending, payload.id) : TRUE,
                                  payload.result)
    /\ UNCHANGED emitted

\* the mcp:response listener, on the try_lock path or in the task it spawns
\* when the lock is contended: the sender under the id is removed and the
\* result sent through it; a payload that does not parse is logged
mcp_response(payload) ==
    /\ IF ~payload.json
       THEN UNCHANGED <<pending, conns>>
       ELSE /\ pending' = map_remove(pending, payload.id)
            /\ conns' = IF map_get(pending, payload.id) = {} THEN conns
                        ELSE send(conns, CHOOSE tx \in map_get(pending, payload.id) : TRUE,
                                  payload.result)
    /\ UNCHANGED emitted

\* the bridge of a running app: clients connect and send lines, the WebView
\* answers, timers run out, writes to a stream succeed or fail
StepBridge(lines, payloads) ==
    \/ accept /\ UNCHANGED <<task_vars, map_lock, deferred, client>>
    \/ \E c \in DOMAIN conns, line \in lines, write_ok \in BOOLEAN : read_line(c, line, write_ok)
          /\ UNCHANGED <<task_vars, map_lock, deferred, client>>
    \/ \E c \in DOMAIN conns : read_eof(c)
          /\ UNCHANGED <<task_vars, map_lock, deferred, client>>
    \/ \E c \in DOMAIN conns, emit_ok \in BOOLEAN : emit(c, emit_ok)
          /\ UNCHANGED <<task_vars, map_lock, deferred, client>>
    \/ \E c \in DOMAIN conns, write_ok \in BOOLEAN : unknown_method(c, write_ok)
          /\ UNCHANGED <<task_vars, map_lock, deferred, client>>
    \/ \E c \in DOMAIN conns, write_ok \in BOOLEAN : emit_failed(c, write_ok)
          /\ UNCHANGED <<task_vars, map_lock, deferred, client>>
    \/ \E c \in DOMAIN conns, write_ok \in BOOLEAN : recv(c, write_ok)
          /\ UNCHANGED <<task_vars, map_lock, deferred, client>>
    \/ \E c \in DOMAIN conns, write_ok \in BOOLEAN : recv_closed(c, write_ok)
          /\ UNCHANGED <<task_vars, map_lock, deferred, client>>
    \/ \E c \in DOMAIN conns : elapsed(c)
          /\ UNCHANGED <<task_vars, map_lock, deferred, client>>
    \/ \E c \in DOMAIN conns, write_ok \in BOOLEAN : timeout_cleanup(c, write_ok)
          /\ UNCHANGED <<task_vars, map_lock, deferred, client>>
    \/ \E payload \in payloads : mcp_response(payload)
          /\ UNCHANGED <<task_vars, map_lock, deferred, client>>

\* the bridge under concurrency: two correlation ids, one request of a known
\* and one of an unknown method, a line that is not JSON and one that is not
\* UTF-8
SomeLines ==
    { Line(TRUE, TRUE, Some(r), Some("canvas_read"), TRUE) : r \in CorrelationIds }
    \cup { Line(TRUE, TRUE, Some("req-1"), Some("canvas_delete"), TRUE),
           Line(TRUE, FALSE, None, None, FALSE),
           Line(FALSE, FALSE, None, None, FALSE) }
SomeAckPayloads ==
    { [json |-> TRUE, id |-> r, result |-> "a"] : r \in CorrelationIds }
    \cup { [json |-> FALSE, id |-> "", result |-> ""] }

NextBridge == StepBridge(SomeLines, SomeAckPayloads)

\* the bridge is started by the app, which has an AppHandle
InitBridge == Init /\ tasks = <<>> /\ app_handle /\ ~on_complete

SpecBridge == InitBridge /\ [][NextBridge]_vars

\* ------------------------------------------------------------------------
\* The lock of the pending map: pending.lock().await as a step of its own
\* where the guard outlives it
\* ------------------------------------------------------------------------
\* positions of a connection whose next statement is pending.lock().await
\* followed by the remove of its entry
MapLockPcs == { "unknown", "emit_failed", "timed_out" }

\* pending.lock().await of connection c: it resolves once no one holds the
\* guard
lock_pending(c) ==
    /\ c \in DOMAIN conns
    /\ conns[c].pc \in MapLockPcs
    /\ map_lock = None
    /\ map_lock' = Some(c)
    /\ UNCHANGED <<pending, conns, emitted, deferred, client, task_vars>>

\* a line that read_line puts into the pending map
IsRequest(line) == line.utf8 /\ from_str(line)[1].ok

\* variant of drop_insert_guard: the guard of the insert lives on
keep_insert_guard(c, line) ==
    IF IsRequest(line) THEN Some(c) ELSE None

\* the closing brace of the block that inserts the sender
drop_insert_guard(c, line) ==
    None

\* the bridge with the steps of StepBridge that use the pending map taken
\* under its guard; the listener takes it by try_lock or in a task that
\* waits for it
StepBridgeLock(lines, payloads) ==
    \/ accept /\ UNCHANGED <<task_vars, map_lock, deferred, client>>
    \/ \E c \in DOMAIN conns, line \in lines, write_ok \in BOOLEAN : read_line(c, line, write_ok)
          /\ (IsRequest(line) => map_lock = None)
          /\ map_lock' = (IF IsRequest(line) THEN drop_insert_guard(c, line) ELSE map_lock)
          /\ UNCHANGED <<task_vars, deferred, client>>
    \/ \E c \in DOMAIN conns : read_eof(c)
          /\ UNCHANGED <<task_vars, map_lock, deferred, client>>
    \/ \E c \in DOMAIN conns, emit_ok \in BOOLEAN : emit(c, emit_ok)
          /\ UNCHANGED <<task_vars, map_lock, deferred, client>>
    \/ \E c \in DOMAIN conns : lock_pending(c)
    \/ \E c \in DOMAIN conns, write_ok \in BOOLEAN : unknown_method(c, write_ok)
          /\ map_lock = Some(c) /\ map_lock' = None /\ UNCHANGED <<task_vars, deferred, client>>
    \/ \E c \in DOMAIN conns, write_ok \in BOOLEAN : emit_failed(c, write_ok)
          /\ map_lock = Some(c) /\ map_lock' = None /\ UNCHANGED <<task_vars, deferred, client>>
    \/ \E c \in DOMAIN conns, write_ok \in BOOLEAN : recv(c, write_ok)
          /\ UNCHANGED <<task_vars, map_lock, deferred, client>>
    \/ \E c \in DOMAIN conns, write_ok \in BOOLEAN : recv_closed(c, write_ok)
          /\ UNCHANGED <<task_vars, map_lock, deferred, client>>
    \/ \E c \in DOMAIN conns : elapsed(c)
          /\ UNCHANGED <<task_vars, map_lock, deferred, client>>
    \/ \E c \in DOMAIN conns, write_ok \in BOOLEAN : timeout_cleanup(c, write_ok)
          /\ map_lock = Some(c) /\ map_lock' = None /\ UNCHANGED <<task_vars, deferred, client>>
    \/ \E payload \in payloads : mcp_response(payload)
          /\ (payload.json => map_lock = None)
          /\ UNCHANGED <<task_vars, map_lock, deferred, client>>

NextBridgeLock == StepBridgeLock(SomeLines, SomeAckPayloads)

SpecBridgeLock == InitBridge /\ [][NextBridgeLock]_vars

\* ------------------------------------------------------------------------
\* The orchestration with a store that answers and a runtime that runs
\* every spawned future
\* ------------------------------------------------------------------------
\* the next step of the future of executor e, whatever the store, the
\* service, the network and the file system answer
executor_step(e) ==
    \/ \E db_ok \in DbOutcomes : image_execute_start(e, db_ok)
    \/ \E resp \in SomeImageResponses : image_generated(e, resp)
    \/ \E fs_ok \in BOOLEAN : asset_written(e, fs_ok)
    \/ \E db_ok \in DbOutcomes : image_execute_done(e, db_ok)
    \/ \E db_ok \in DbOutcomes : run_image_task_failed(e, db_ok)
    \/ \E db_ok \in DbOutcomes, emit_ok \in EmitOutcomes : spawn_image_complete(e, db_ok, emit_ok)
    \/ \E db_ok \in DbOutcomes : video_execute_start(e, db_ok)
    \/ \E resp \in SomeCreateResponses : video_created(e, resp)
    \/ \E db_ok \in DbOutcomes : video_persist_handle(e, db_ok)
    \/ \E resp \in SomePollResponses, latency \in SlowLatencies : video_poll(e, resp, latency)
    \/ \E net_ok \in BOOLEAN : video_downloaded(e, net_ok)
    \/ \E db_ok \in DbOutcomes : video_execute_done(e, db_ok)
    \/ \E db_ok \in DbOutcomes : run_video_task_failed(e, db_ok)
    \/ \E db_ok \in DbOutcomes, emit_ok \in EmitOutcomes : spawn_video_complete(e, db_ok, emit_ok)

\* the store does not fail: the failures it is allowed are used up
InitFair ==
    /\ tasks \in StartStores
    /\ execs = <<>>
    /\ app_handle \in BOOLEAN
    /\ on_complete \in BOOLEAN
    /\ submitted = {}
    /\ ret = None
    /\ jobs = JobsOf(tasks)
    /\ faults = MaxFaults
    /\ db_lock = None
    /\ pending = {}
    /\ map_lock = None
    /\ deferred = <<>>
    /\ client = NoClient
    /\ conns = <<>>
    /\ emitted = {}

\* tokio polls every spawned future again once what it awaits is ready, and
\* every remote call, sleep and file operation returns
SpecFair ==
    /\ InitFair
    /\ [][Next]_vars
    /\ \A e \in 1..MaxExecs : WF_vars(executor_step(e) /\ UNCHANGED <<bridge_vars, db_lock>>)

\* ------------------------------------------------------------------------
\* The video path of one task, over every answer of the service
\* ------------------------------------------------------------------------
InitVideo == Init /\ tasks = <<>>

\* one video task is submitted; the service answers a poll at once or
\* slowly, with any status, with or without a URL and a message
NextVideo ==
    \/ /\ execs = <<>>
       /\ \E p \in SomeVideoInputs, db_ok \in DbOutcomes : submit_video(p, db_ok)
       /\ UNCHANGED <<bridge_vars, db_lock>>
    \/ \E e \in DOMAIN execs, db_ok \in DbOutcomes : video_execute_start(e, db_ok)
          /\ UNCHANGED <<bridge_vars, db_lock>>
    \/ \E e \in DOMAIN execs, resp \in CreateResponses : video_created(e, resp)
          /\ UNCHANGED <<bridge_vars, db_lock>>
    \/ \E e \in DOMAIN execs, db_ok \in DbOutcomes : video_persist_handle(e, db_ok)
          /\ UNCHANGED <<bridge_vars, db_lock>>
    \/ \E e \in DOMAIN execs, resp \in PollResponses, latency \in Latencies :
          video_poll(e, resp, latency)
          /\ UNCHANGED <<bridge_vars, db_lock>>
    \/ \E e \in DOMAIN execs, net_ok \in BOOLEAN : video_downloaded(e, net_ok)
          /\ UNCHANGED <<bridge_vars, db_lock>>
    \/ \E e \in DOMAIN execs, fs_ok \in BOOLEAN : asset_written(e, fs_ok)
          /\ UNCHANGED <<bridge_vars, db_lock>>
    \/ \E e \in DOMAIN execs, db_ok \in DbOutcomes : video_execute_done(e, db_ok)
          /\ UNCHANGED <<bridge_vars, db_lock>>
    \/ \E e \in DOMAIN execs, db_ok \in DbOutcomes : run_video_task_failed(e, db_ok)
          /\ UNCHANGED <<bridge_vars, db_lock>>
    \/ \E e \in DOMAIN execs, db_ok \in DbOutcomes, emit_ok \in EmitOutcomes :
          spawn_video_complete(e, db_ok, emit_ok)
          /\ UNCHANGED <<bridge_vars, db_lock>>

SpecVideo == InitVideo /\ [][NextVideo]_vars

\* ------------------------------------------------------------------------
\* The store lock: db.lock() and the drop of the guard as steps of their own
\* ------------------------------------------------------------------------
\* positions of an executor whose next statement is a db.lock()
LockPcs == { "start", "persist_handle", "write_done", "fail", "returned" }

\* positions of an executor inside an .await of execute: a remote call, the
\* sleep and the poll of the loop, the download, the file write
SuspendedPcs == { "await_image", "await_create", "poll", "download", "fs_write" }

\* db.lock() of executor e: it returns once no one holds the guard
lock(e) ==
    /\ Live(e)
    /\ execs[e].pc \in LockPcs
    /\ db_lock = None
    /\ db_lock' = Some(e)
    /\ UNCHANGED <<tasks, execs, app_handle, on_complete, submitted, ret, jobs, faults,
                   bridge_vars>>

\* variant of drop_guard: the guard lives on into the await that follows
drop_guard_after_await(e) ==
    IF execs'[e].pc \in SuspendedPcs THEN Some(e) ELSE None

\* the end of the block or statement that took the guard: MutexGuard::drop
drop_guard(e) ==
    None

\* db.lock() of the caller of a TaskQueue method, which runs to the drop of
\* its guard without a suspension
caller_lock == db_lock = None /\ db_lock' = None

\* the orchestration with the steps of Step that use the store taken under
\* the guard
StepLock(image_inputs, video_inputs, image_resps, create_resps, poll_resps, latencies) ==
    \/ \E p \in image_inputs, db_ok \in DbOutcomes : submit_image(p, db_ok)
          /\ caller_lock /\ UNCHANGED bridge_vars
    \/ \E p \in video_inputs, db_ok \in DbOutcomes : submit_video(p, db_ok)
          /\ caller_lock /\ UNCHANGED bridge_vars
    \/ \E db_ok \in DbOutcomes : resume_running_tasks(db_ok)
          /\ caller_lock /\ UNCHANGED bridge_vars
    \/ \E e \in DOMAIN execs : lock(e)
    \/ \E e \in DOMAIN execs, db_ok \in DbOutcomes : image_execute_start(e, db_ok)
          /\ db_lock = Some(e) /\ db_lock' = drop_guard(e) /\ UNCHANGED bridge_vars
    \/ \E e \in DOMAIN execs, resp \in image_resps : image_generated(e, resp)
          /\ UNCHANGED <<bridge_vars, db_lock>>
    \/ \E e \in DOMAIN execs, fs_ok \in BOOLEAN : asset_written(e, fs_ok)
          /\ UNCHANGED <<bridge_vars, db_lock>>
    \/ \E e \in DOMAIN execs, db_ok \in DbOutcomes : image_execute_done(e, db_ok)
          /\ db_lock = Some(e) /\ db_lock' = drop_guard(e) /\ UNCHANGED bridge_vars
    \/ \E e \in DOMAIN execs, db_ok \in DbOutcomes : run_image_task_failed(e, db_ok)
          /\ db_lock = Some(e) /\ db_lock' = drop_guard(e) /\ UNCHANGED bridge_vars
    \/ \E e \in DOMAIN execs, db_ok \in DbOutcomes, emit_ok \in EmitOutcomes :
          spawn_image_complete(e, db_ok, emit_ok)
          /\ db_lock = Some(e) /\ db_lock' = drop_guard(e) /\ UNCHANGED bridge_vars
    \/ \E e \in DOMAIN execs, db_ok \in DbOutcomes : video_execute_start(e, db_ok)
          /\ db_lock = Some(e) /\ db_lock' = drop_guard(e) /\ UNCHANGED bridge_vars
    \/ \E e \in DOMAIN execs, resp \in create_resps : video_created(e, resp)
          /\ UNCHANGED <<bridge_vars, db_lock>>
    \/ \E e \in DOMAIN execs, db_ok \in DbOutcomes : video_persist_handle(e, db_ok)
          /\ db_lock = Some(e) /\ db_lock' = drop_guard(e) /\ UNCHANGED bridge_vars
    \/ \E e \in DOMAIN execs, resp \in poll_resps, latency \in latencies :
          video_poll(e, resp, latency)
          /\ UNCHANGED <<bridge_vars, db_lock>>
    \/ \E e \in DOMAIN execs, net_ok \in BOOLEAN : video_downloaded(e, net_ok)
          /\ UNCHANGED <<bridge_vars, db_lock>>
    \/ \E e \in DOMAIN execs, db_ok \in DbOutcomes : video_execute_done(e, db_ok)
          /\ db_lock = Some(e) /\ db_lock' = drop_guard(e) /\ UNCHANGED bridge_vars
    \/ \E e \in DOMAIN execs, db_ok \in DbOutcomes : run_video_task_failed(e, db_ok)
          /\ db_lock = Some(e) /\ db_lock' = drop_guard(e) /\ UNCHANGED bridge_vars
    \/ \E e \in DOMAIN execs, db_ok \in DbOutcomes, emit_ok \in EmitOutcomes :
          spawn_video_complete(e, db_ok, emit_ok)
          /\ db_lock = Some(e) /\ db_lock' = drop_guard(e) /\ UNCHANGED bridge_vars

NextLock == StepLock(SomeImageInputs, SomeVideoInputs, SomeImageResponses, SomeCreateResponses,
                     SomePollResponses, SlowLatencies)

\* a headless queue with no callback set, on an empty tasks table
InitLock == Init /\ tasks = <<>> /\ ~app_handle /\ ~on_complete

SpecLock == InitLock /\ [][NextLock]_vars

\* ------------------------------------------------------------------------
\* The mcp:response listener with its two paths: try_lock, and the task it
\* spawns when the guard is taken
\* ------------------------------------------------------------------------
\* tasks of the listener that may wait for the guard at one time
MaxDeferred == 1

\* the callback of app_handle.listen("mcp:response"): with the guard from
\* try_lock the sender is removed and the result sent at once; with the guard
\* taken the id and the result move into a spawned task and the callback
\* returns
listener(payload) ==
    /\ IF ~payload.json \/ map_lock = None
       THEN /\ mcp_response(payload)
            /\ deferred' = deferred
       ELSE /\ Len(deferred) < MaxDeferred
            /\ deferred' = Append(deferred, payload)
            /\ UNCHANGED <<pending, conns, emitted>>
    /\ UNCHANGED <<map_lock, client, task_vars>>

\* the spawned task: pending.lock().await resolved, the sender under the id
\* is removed and the result sent, and the guard dropped with the task
retry(i) ==
    /\ i \in DOMAIN deferred
    /\ map_lock = None
    /\ mcp_response(deferred[i])
    /\ deferred' = [k \in 1..(Len(deferred) - 1) |->
                        IF k < i THEN deferred[k] ELSE deferred[k + 1]]
    /\ UNCHANGED <<map_lock, client, task_vars>>

\* the bridge of StepBridgeLock with the listener's callback and its tasks
\* as steps of their own
StepListener(lines, payloads) ==
    \/ accept /\ UNCHANGED <<task_vars, map_lock, deferred, client>>
    \/ \E c \in DOMAIN conns, line \in lines, write_ok \in BOOLEAN : read_line(c, line, write_ok)
          /\ (IsRequest(line) => map_lock = None)
          /\ map_lock' = (IF IsRequest(line) THEN drop_insert_guard(c, line) ELSE map_lock)
          /\ UNCHANGED <<task_vars, deferred, client>>
    \/ \E c \in DOMAIN conns : read_eof(c)
          /\ UNCHANGED <<task_vars, map_lock, deferred, client>>
    \/ \E c \in DOMAIN conns, emit_ok \in BOOLEAN : emit(c, emit_ok)
          /\ UNCHANGED <<task_vars, map_lock, deferred, client>>
    \/ \E c \in DOMAIN conns : lock_pending(c)
    \/ \E c \in DOMAIN conns, write_ok \in BOOLEAN : unknown_method(c, write_ok)
          /\ map_lock = Some(c) /\ map_lock' = None /\ UNCHANGED <<task_vars, deferred, client>>
    \/ \E c \in DOMAIN conns, write_ok \in BOOLEAN : emit_failed(c, write_ok)
          /\ map_lock = Some(c) /\ map_lock' = None /\ UNCHANGED <<task_vars, deferred, client>>
    \/ \E c \in DOMAIN conns, write_ok \in BOOLEAN : recv(c, write_ok)
          /\ UNCHANGED <<task_vars, map_lock, deferred, client>>
    \/ \E c \in DOMAIN conns, write_ok \in BOOLEAN : recv_closed(c, write_ok)
          /\ UNCHANGED <<task_vars, map_lock, deferred, client>>
    \/ \E c \in DOMAIN conns : elapsed(c)
          /\ UNCHANGED <<task_vars, map_lock, deferred, client>>
    \/ \E c \in DOMAIN conns, write_ok \in BOOLEAN : timeout_cleanup(c, write_ok)
          /\ map_lock = Some(c) /\ map_lock' = None /\ UNCHANGED <<task_vars, deferred, client>>
    \/ \E payload \in payloads : listener(payload)
    \/ \E i \in DOMAIN deferred : retry(i)

\* requests of a known method under both ids, and one of an unknown method
\* whose arm holds the guard while it writes
ListenerLines ==
    { Line(TRUE, TRUE, Some(r), Some("canvas_read"), TRUE) : r \in CorrelationIds }
    \cup { Line(TRUE, TRUE, Some("req-1"), Some("canvas_delete"), TRUE) }

NextListener == StepListener(ListenerLines, SomeAckPayloads)

SpecListener == InitBridge /\ [][NextListener]_vars

\* ------------------------------------------------------------------------
\* The image path with every answer of the service
\* ------------------------------------------------------------------------
InitImage == Init /\ tasks = <<>>

\* one image task is submitted; the service answers with an error, with no
\* item, with an item that has no content, bad content, or content with a
\* size that is absent, WxH or other text
NextImage ==
    \/ /\ execs = <<>>
       /\ \E p \in SomeImageInputs, db_ok \in DbOutcomes : submit_image(p, db_ok)
       /\ UNCHANGED <<bridge_vars, db_lock>>
    \/ \E e \in DOMAIN execs, db_ok \in DbOutcomes : image_execute_start(e, db_ok)
          /\ UNCHANGED <<bridge_vars, db_lock>>
    \/ \E e \in DOMAIN execs, resp \in ImageResponses : image_generated(e, resp)
          /\ UNCHANGED <<bridge_vars, db_lock>>
    \/ \E e \in DOMAIN execs, fs_ok \in BOOLEAN : asset_written(e, fs_ok)
          /\ UNCHANGED <<bridge_vars, db_lock>>
    \/ \E e \in DOMAIN execs, db_ok \in DbOutcomes : image_execute_done(e, db_ok)
          /\ UNCHANGED <<bridge_vars, db_lock>>
    \/ \E e \in DOMAIN execs, db_ok \in DbOutcomes : run_image_task_failed(e, db_ok)
          /\ UNCHANGED <<bridge_vars, db_lock>>
    \/ \E e \in DOMAIN execs, db_ok \in DbOutcomes, emit_ok \in EmitOutcomes :
          spawn_image_complete(e, db_ok, emit_ok)
          /\ UNCHANGED <<bridge_vars, db_lock>>

SpecImage == InitImage /\ [][NextImage]_vars

\* ------------------------------------------------------------------------
\* Canvas batch operations and their JSON form (mcp.rs)
\* ------------------------------------------------------------------------
\* serde_json::Value; numbers are integers here
JNull == [t |-> "null"]
JStr(s) == [t |-> "string", v |-> s]
JNum(n) == [t |-> "number", v |-> n]
JArr(a) == [t |-> "array", v |-> a]
JObj(o) == [t |-> "object", v |-> o]

\* Serialize for CanvasPosition and Vec<String>
ser_position(p) == JObj([k \in { "x", "y" } |-> JNum(IF k = "x" THEN p.x ELSE p.y)])
ser_strings(a) == JArr([i \in DOMAIN a |-> JStr(a[i])])

\* Serialize for Option<T>, T being CanvasPosition, u32, Vec<String> or
\* String: None is null
ser_option(opt, type) ==
    IF opt = None THEN JNull
    ELSE CASE type = "CanvasPosition" -> ser_position(opt[1])
           [] type = "u32" -> JNum(opt[1])
           [] type = "Vec<String>" -> ser_strings(opt[1])
           [] OTHER -> JStr(opt[1])

\* the key of a field in the JSON object: its serde rename, or its name
AddNodeKeys ==
    [ node_type |-> "type", title |-> "title", position |-> "position",
      initial_content |-> "initialContent", url |-> "url", width |-> "width",
      height |-> "height", ref_name |-> "ref" ]
UpdateNodeKeys ==
    [ node_id |-> "nodeId", title |-> "title", position |-> "position",
      new_content |-> "newContent", new_image_url |-> "newImageUrl",
      new_video_url |-> "newVideoUrl", width |-> "width", height |-> "height" ]
DeleteKeys == [ node_ids |-> "nodeIds", edge_ids |-> "edgeIds" ]
AddEdgeKeys == [ source |-> "source", target |-> "target" ]

\* the tag of a variant: rename_all = "snake_case"
Tag(variant) ==
    CASE variant = "AddNode" -> "add_node"
      [] variant = "UpdateNode" -> "update_node"
      [] variant = "Delete" -> "delete"
      [] variant = "AddEdge" -> "add_edge"

\* the value of field f of op in JSON
ser_field(op, f) ==
    CASE f \in { "node_type", "title", "node_id", "source", "target" }
              /\ ~(op.variant = "UpdateNode" /\ f = "title") -> JStr(op[f])
      [] f = "position" -> ser_option(op[f], "CanvasPosition")
      [] f \in { "width", "height" } -> ser_option(op[f], "u32")
      [] f \in { "node_ids", "edge_ids" } -> ser_option(op[f], "Vec<String>")
      [] OTHER -> ser_option(op[f], "String")

\* variant of ser_variant: the object has no tag
ser_variant_untagged(op, keys) ==
    JObj([k \in { keys[f] : f \in DOMAIN keys } |->
            ser_field(op, CHOOSE f \in DOMAIN keys : keys[f] = k)])

\* the object with the tag under "op" and every field of keys under its key
ser_variant(op, keys) ==
    JObj([k \in { "op" } \cup { keys[f] : f \in DOMAIN keys } |->
            IF k = "op" THEN JStr(Tag(op.variant))
            ELSE ser_field(op, CHOOSE f \in DOMAIN keys : keys[f] = k)])

\* serde_json::to_value(op) of a BatchOperation
ser(op) ==
    CASE op.variant = "AddNode" -> ser_variant(op, AddNodeKeys)
      [] op.variant = "UpdateNode" -> ser_variant(op, UpdateNodeKeys)
      [] op.variant = "Delete" -> ser_variant(op, DeleteKeys)
      [] op.variant = "AddEdge" -> ser_variant(op, AddEdgeKeys)

\* Deserialize for String, u32, CanvasPosition and Vec<String>
de_string(j) == IF j.t = "string" THEN Ok(j.v) ELSE Err("invalid type")
de_u32(j) == IF j.t = "number" /\ j.v >= 0 THEN Ok(j.v) ELSE Err("invalid type")
de_position(j) ==
    IF /\ j.t = "object"
       /\ { "x", "y" } \subseteq DOMAIN j.v
       /\ j.v["x"].t = "number" /\ j.v["y"].t = "number"
    THEN Ok([x |-> j.v["x"].v, y |-> j.v["y"].v])
    ELSE Err("invalid type")
de_strings(j) ==
    IF j.t = "array" /\ \A i \in DOMAIN j.v : j.v[i].t = "string"
    THEN Ok([i \in DOMAIN j.v |-> j.v[i].v])
    ELSE Err("invalid type")

\* a field of the object o under key k: a required field must be there; an
\* Option with #[serde(default)] is None when the key is missing or null
de_value(j, type) ==
    CASE type = "CanvasPosition" -> de_position(j)
      [] type = "u32" -> de_u32(j)
      [] type = "Vec<String>" -> de_strings(j)
      [] OTHER -> de_string(j)
de_required(o, k, type) ==
    IF k \in DOMAIN o THEN de_value(o[k], type) ELSE Err("missing field")
de_default(o, k, type) ==
    IF k \notin DOMAIN o \/ o[k].t = "null" THEN Ok(None)
    ELSE IF de_value(o[k], type)[1].ok THEN Ok(Some(de_value(o[k], type)[1].val))
    ELSE de_value(o[k], type)

\* the field f of a variant read from the object o under key k
de_field(variant, f, o, k) ==
    CASE f \in { "node_type", "node_id", "source", "target" } -> de_required(o, k, "String")
      [] f = "title" /\ variant = "AddNode" -> de_required(o, k, "String")
      [] f = "position" -> de_default(o, k, "CanvasPosition")
      [] f \in { "width", "height" } -> de_default(o, k, "u32")
      [] f \in { "node_ids", "edge_ids" } -> de_default(o, k, "Vec<String>")
      [] OTHER -> de_default(o, k, "String")

\* the variant built from the object o, or the error of its first bad field;
\* keys of o that belong to no field are ignored
de_variant(variant, keys, o) ==
    IF \E f \in DOMAIN keys : ~de_field(variant, f, o, keys[f])[1].ok
    THEN Err("invalid operation")
    ELSE Ok([f \in { "variant" } \cup DOMAIN keys |->
                IF f = "variant" THEN variant
                ELSE de_field(variant, f, o, keys[f])[1].val])

\* serde_json::from_value::<BatchOperation>(j): the tag under "op" selects
\* the variant
de(j) ==
    IF j.t # "object" \/ "op" \notin DOMAIN j.v \/ j.v["op"].t # "string"
    THEN Err("missing tag")
    ELSE CASE j.v["op"].v = "add_node" -> de_variant("AddNode", AddNodeKeys, j.v)
           [] j.v["op"].v = "update_node" -> de_variant("UpdateNode", UpdateNodeKeys, j.v)
           [] j.v["op"].v = "delete" -> de_variant("Delete", DeleteKeys, j.v)
           [] j.v["op"].v = "add_edge" -> de_variant("AddEdge", AddEdgeKeys, j.v)
           [] OTHER -> Err("unknown variant")

\* Vec<BatchOperation> from a JSON array, and back
de_operations(js) ==
    IF \E i \in DOMAIN js : ~de(js[i])[1].ok THEN Err("invalid operations")
    ELSE Ok([i \in DOMAIN js |-> de(js[i])[1].val])
ser_operations(ops) == [i \in DOMAIN ops |-> ser(ops[i])]

\* ------------------------------------------------------------------------
\* The tool host: canvas tool calls and the task that owns the bridge
\* connection (mcp.rs, bin/seedcanvas-mcp.rs)
\* ------------------------------------------------------------------------
\* tool calls made in one run
MaxCallers == 2

\* uuid::Uuid::new_v4() of the n-th request: an id no other request has
request_id(n) == IF n = 1 THEN "req-1" ELSE "req-2"

\* connect_canvas_socket: the stream is connected, the bridge accepts it and
\* the task is spawned
connect_canvas_socket ==
    /\ client.pc = "off"
    /\ accept
    /\ client' = [client EXCEPT !.pc = "recv", !.conn = Len(conns) + 1]
    /\ UNCHANGED <<task_vars, map_lock, deferred>>

\* a tool call: its locals, and the request it sends into the channel unless
\* the task has ended or its parameters were refused
tool_call(method, ops, params) ==
    /\ client.pc # "off"
    /\ Len(client.callers) < MaxCallers
    /\ client' = [client EXCEPT
          !.callers = Append(@, [method |-> method, ops |-> ops]),
          !.queue = IF client.pc = "closed" \/ ops = None THEN @
                    ELSE Append(@, [caller |-> Len(client.callers) + 1,
                                    method |-> method, params |-> params])]
    /\ UNCHANGED <<task_vars, pending, map_lock, conns, emitted, deferred>>

\* canvas_read: the payload is built from the parameters
canvas_read ==
    tool_call("canvas_read", Some(<<>>),
              JObj([k \in { "scope", "nodeIds", "edgeIds" } |->
                       IF k = "scope" THEN JArr(<<JStr("all")>>) ELSE JNull]))

\* canvas_batch called with the JSON array js: Parameters deserializes the
\* operations, to_value serializes them for the frontend
canvas_batch(js) ==
    LET operations == de_operations(js)
    IN  IF operations[1].ok
        THEN tool_call("canvas_batch", Some(operations[1].val),
                       JArr(ser_operations(operations[1].val)))
        ELSE tool_call("canvas_batch", None, JNull)

\* the reply sent to the caller of the request in hand
reply(result, frame) ==
    Append(client.replies, [caller |-> client.cur[1].caller, id |-> client.cur[1].id,
                            result |-> result, frame |-> frame])

\* rx.recv() returned a request: it is written as one line with a new id; a
\* failed write answers the caller and ends the task
client_send(write_ok) ==
    /\ client.pc = "recv"
    /\ client.queue # <<>>
    /\ LET req == Head(client.queue)
           id == request_id(client.sent + 1)
           cur == Some([caller |-> req.caller, id |-> id])
       IN  client' =
             IF write_ok
             THEN [client EXCEPT !.pc = "read", !.queue = Tail(@), !.cur = cur,
                                 !.sent = @ + 1,
                                 !.wire = Append(@, Line(TRUE, TRUE, Some(id),
                                                         Some(req.method), TRUE))]
             ELSE [client EXCEPT !.pc = "closed", !.queue = Tail(@), !.cur = None,
                                 !.replies = Append(@, [caller |-> req.caller, id |-> id,
                                                        result |-> Err("Lost connection"),
                                                        frame |-> None])]
    /\ UNCHANGED <<task_vars, pending, map_lock, conns, emitted, deferred>>

\* read_line of the response: the next line of the stream answers the request
\* in hand, whatever its id; the end of the stream ends the task
client_read ==
    /\ client.pc = "read"
    /\ LET out == conns[client.conn].out
       IN  IF Len(out) > client.read
           THEN LET frame == out[client.read + 1]
                IN  client' = [client EXCEPT
                       !.pc = "recv", !.cur = None, !.read = @ + 1,
                       !.replies = reply(IF "error" \in DOMAIN frame THEN Err(frame.error)
                                         ELSE IF "result" \in DOMAIN frame THEN Ok(frame.result)
                                         ELSE Ok("line"), Some(frame))]
           ELSE /\ conns[client.conn].pc \in { "closed", "done" }
                /\ client' = [client EXCEPT
                       !.pc = "closed", !.cur = None,
                       !.replies = reply(Err("Lost connection"), None)]
    /\ UNCHANGED <<task_vars, pending, map_lock, conns, emitted, deferred>>

\* the operation objects a tool call may carry: every variant with all or
\* few of its fields, an explicit null, an unknown tag, a negative width
BatchObjects ==
    { JObj([k \in { "op", "type", "title", "position", "url", "width", "height", "ref" } |->
              CASE k = "op" -> JStr("add_node") [] k = "type" -> JStr("image")
                [] k = "title" -> JStr("Cat") [] k = "url" -> JStr("/cat.png")
                [] k = "position" -> JObj([c \in { "x", "y" } |-> JNum(IF c = "x" THEN -200 ELSE 58)])
                [] k = "ref" -> JStr("cat") [] OTHER -> JNum(400)]),
      JObj([k \in { "op", "type", "title", "initialContent" } |->
              CASE k = "op" -> JStr("add_node") [] k = "type" -> JStr("text")
                [] k = "title" -> JStr("Note") [] OTHER -> JNull]),
      JObj([k \in { "op", "nodeId", "title", "newContent", "newImageUrl" } |->
              CASE k = "op" -> JStr("update_node") [] k = "nodeId" -> JStr("n1")
                [] k = "title" -> JStr("New") [] k = "newContent" -> JStr("text")
                [] OTHER -> JStr("/img.png")]),
      JObj([k \in { "op", "nodeIds", "edgeIds" } |->
              CASE k = "op" -> JStr("delete")
                [] k = "nodeIds" -> JArr(<<JStr("n1"), JStr("n2")>>)
                [] OTHER -> JArr(<<JStr("e1")>>)]),
      JObj([k \in { "op" } |-> JStr("delete")]),
      JObj([k \in { "op", "source", "target" } |->
              CASE k = "op" -> JStr("add_edge") [] k = "source" -> JStr("cat")
                [] OTHER -> JStr("n1")]),
      JObj([k \in { "op", "foo" } |->
              CASE k = "op" -> JStr("unknown_op") [] OTHER -> JStr("bar")]),
      JObj([k \in { "op", "type", "title", "width" } |->
              CASE k = "op" -> JStr("add_node") [] k = "type" -> JStr("image")
                [] k = "title" -> JStr("Cat") [] OTHER -> JNum(-1)]) }

\* batches of one or two operations
Batches == { <<j>> : j \in BatchObjects } \cup { <<j, k>> : j, k \in BatchObjects }

\* the tool host connects and its tools are called with any batch
NextBatch ==
    \/ connect_canvas_socket
    \/ canvas_read
    \/ \E js \in Batches : canvas_batch(js)
    \/ \E write_ok \in BOOLEAN : client_send(write_ok)

SpecBatch == InitBridge /\ [][NextBatch]_vars

\* ------------------------------------------------------------------------
\* The tool host and the bridge together: the client's lines are the lines
\* its connection reads, its responses the lines the handler writes
\* ------------------------------------------------------------------------
\* the one batch the tools are called with here
OneBatch ==
    { <<JObj([k \in { "op", "source", "target" } |->
                CASE k = "op" -> JStr("add_edge") [] k = "source" -> JStr("cat")
                  [] OTHER -> JStr("n1")])>> }

\* the lines another process sends on a connection of its own
ForeignLines ==
    { Line(TRUE, TRUE, Some("req-1"), Some("canvas_read"), TRUE),
      Line(TRUE, TRUE, Some("req-2"), Some("canvas_delete"), TRUE) }

\* connections that are not the tool host's
Foreign == { c \in DOMAIN conns : c # client.conn }

\* the handler of the tool host's connection reads the next line on the wire
read_client_line ==
    /\ client.wire # <<>>
    /\ \E write_ok \in BOOLEAN : read_line(client.conn, Head(client.wire), write_ok)
    /\ client' = [client EXCEPT !.wire = Tail(@)]
    /\ UNCHANGED <<task_vars, map_lock, deferred>>

\* the task of the tool host has ended and dropped the stream
read_client_eof ==
    /\ client.pc = "closed"
    /\ client.wire = <<>>
    /\ read_eof(client.conn)
    /\ UNCHANGED <<task_vars, map_lock, deferred, client>>

NextClient ==
    \/ connect_canvas_socket
    \/ canvas_read
    \/ \E js \in OneBatch : canvas_batch(js)
    \/ \E write_ok \in BOOLEAN : client_send(write_ok)
    \/ client_read
    \/ read_client_line
    \/ read_client_eof
    \/ accept /\ UNCHANGED <<task_vars, map_lock, deferred, client>>
    \/ \E c \in Foreign, line \in ForeignLines, write_ok \in BOOLEAN : read_line(c, line, write_ok)
          /\ UNCHANGED <<task_vars, map_lock, deferred, client>>
    \/ \E c \in Foreign : read_eof(c)
          /\ UNCHANGED <<task_vars, map_lock, deferred, client>>
    \/ \E c \in DOMAIN conns, emit_ok \in BOOLEAN : emit(c, emit_ok)
          /\ UNCHANGED <<task_vars, map_lock, deferred, client>>
    \/ \E c \in DOMAIN conns, write_ok \in BOOLEAN : unknown_method(c, write_ok)
          /\ UNCHANGED <<task_vars, map_lock, deferred, client>>
    \/ \E c \in DOMAIN conns, write_ok \in BOOLEAN : emit_failed(c, write_ok)
          /\ UNCHANGED <<task_vars, map_lock, deferred, client>>
    \/ \E c \in DOMAIN conns, write_ok \in BOOLEAN : recv(c, write_ok)
          /\ UNCHANGED <<task_vars, map_lock, deferred, client>>
    \/ \E c \in DOMAIN conns, write_ok \in BOOLEAN : recv_closed(c, write_ok)
          /\ UNCHANGED <<task_vars, map_lock, deferred, client>>
    \/ \E c \in DOMAIN conns : elapsed(c)
          /\ UNCHANGED <<task_vars, map_lock, deferred, client>>
    \/ \E c \in DOMAIN conns, write_ok \in BOOLEAN : timeout_cleanup(c, write_ok)
          /\ UNCHANGED <<task_vars, map_lock, deferred, client>>
    \/ \E payload \in SomeAckPayloads : mcp_response(payload)
          /\ UNCHANGED <<task_vars, map_lock, deferred, client>>

SpecClient == InitBridge /\ [][NextClient]_vars

\* ------------------------------------------------------------------------
\* Resume over rows whose input no executor can use
\* ------------------------------------------------------------------------
\* inputs of rows written by hand or by another build: text that is not
\* JSON, an object without a prompt, an object whose prompt is null
BadInputs ==
    { Garbled,
      [model |-> Some("doubao-seedream-5-0-260128")],
      [prompt |-> None, model |-> Some("doubao-seedream-5-0-260128")] }

BadRows(id) ==
    { [StoredRow(id, k, StartParams(k), "running") EXCEPT !.input = input] :
        k \in { "image", "video" }, input \in BadInputs }

InitBadInput ==
    /\ tasks \in { <<r>> : r \in BadRows(1) }
                 \cup { <<r1, r2>> : r1 \in BadRows(1), r2 \in BadRows(2) }
    /\ execs = <<>>
    /\ app_handle \in BOOLEAN
    /\ on_complete \in BOOLEAN
    /\ submitted = {}
    /\ ret = None
    /\ jobs = JobsOf(tasks)
    /\ faults = 0
    /\ db_lock = None
    /\ pending = {}
    /\ map_lock = None
    /\ deferred = <<>>
    /\ client = NoClient
    /\ conns = <<>>
    /\ emitted = {}

NextBadInput ==
    \/ \E db_ok \in DbOutcomes : resume_running_tasks(db_ok)
          /\ UNCHANGED <<bridge_vars, db_lock>>
    \/ \E e \in DOMAIN execs, db_ok \in DbOutcomes : image_execute_start(e, db_ok)
          /\ UNCHANGED <<bridge_vars, db_lock>>
    \/ \E e \in DOMAIN execs, db_ok \in DbOutcomes : run_image_task_failed(e, db_ok)
          /\ UNCHANGED <<bridge_vars, db_lock>>
    \/ \E e \in DOMAIN execs, db_ok \in DbOutcomes, emit_ok \in EmitOutcomes :
          spawn_image_complete(e, db_ok, emit_ok)
          /\ UNCHANGED <<bridge_vars, db_lock>>
    \/ \E e \in DOMAIN execs, db_ok \in DbOutcomes : video_execute_start(e, db_ok)
          /\ UNCHANGED <<bridge_vars, db_lock>>
    \/ \E e \in DOMAIN execs, db_ok \in DbOutcomes : run_video_task_failed(e, db_ok)
          /\ UNCHANGED <<bridge_vars, db_lock>>
    \/ \E e \in DOMAIN execs, db_ok \in DbOutcomes, emit_ok \in EmitOutcomes :
          spawn_video_complete(e, db_ok, emit_ok)
          /\ UNCHANGED <<bridge_vars, db_lock>>

SpecBadInput == InitBadInput /\ [][NextBadInput]_vars

\* ------------------------------------------------------------------------
\* Properties
\* ------------------------------------------------------------------------
Terminal == { "done", "failed" }

\* the executors working on task id t
ExecsOn(t) == { e \in DOMAIN execs : execs[e].task.id = t }

\* an executor is active until its future has ended
Active(e) == execs[e].pc # "finished"

RECURSIVE TermWrites(_)
TermWrites(S) ==
    IF S = {} THEN 0
    ELSE LET e == CHOOSE x \in S : TRUE IN execs[e].term + TermWrites(S \ {e})

\* C1: in every state of the store, a row has an output exactly when its
\* status is done and an error exactly when its status is failed
C1_OutputIffDone ==
    \A i \in DOMAIN tasks :
        /\ (tasks[i].output # None) <=> (tasks[i].status = "done")
        /\ (tasks[i].error # None) <=> (tasks[i].status = "failed")

\* a row is done with its output, another row failed with its error, after
\* a resume
C1_Witness ==
    /\ \E i \in DOMAIN tasks : tasks[i].status = "done" /\ tasks[i].output # None
    /\ \E i \in DOMAIN tasks : tasks[i].status = "failed" /\ tasks[i].error # None
    /\ \E e \in DOMAIN execs : execs[e].origin = "resume"

\* C2: a row whose status is done or failed keeps that status in every
\* later step
C2_TerminalIsFinal ==
    [][\A i \in DOMAIN tasks :
          tasks[i].status \in Terminal => tasks'[i].status = tasks[i].status]_vars

\* C3: a task all of whose executors were started by resume_running_tasks
\* (also by two calls in a row) gets at most one terminal write
C3_OneTerminalWrite ==
    \A i \in DOMAIN tasks :
        LET on == ExecsOn(tasks[i].id)
        IN  (\A e \in on : execs[e].origin = "resume") => TermWrites(on) <= 1

\* C4: no two active executors work on the same task id
C4_OneExecutorPerTask ==
    \A e1, e2 \in DOMAIN execs :
        (e1 # e2 /\ Active(e1) /\ Active(e2)) => execs[e1].task.id # execs[e2].task.id

\* C5: a job handle stored in a row stays in the row, unchanged, in every
\* later step
C5_HandleNeverCleared ==
    [][\A i \in DOMAIN tasks :
          tasks[i].ark_task_id # None => tasks'[i].ark_task_id = tasks[i].ark_task_id]_vars

\* C6: an executor resumed on a running video row that has a job handle
\* sends no create request and polls only that handle
C6_ResumeSkipsCreate ==
    \A e \in DOMAIN execs :
        LET x == execs[e]
        IN  ( /\ x.origin = "resume"
              /\ x.task.task_type = "video"
              /\ x.task.status = "running"
              /\ x.task.ark_task_id # None )
            => /\ <<"create_video_task">> \notin x.remote
               /\ \A r \in x.remote :
                     r[1] = "get_video_task" => r[2] = x.task.ark_task_id[1]

\* a supplied value is outside its enumeration (an unset one gets the default)
OutOfEnum(opt, enum) == opt # None /\ opt[1] \notin enum

ImageInvalid(p) ==
    \/ p.prompt = <<>>
    \/ OutOfEnum(p.model, IMAGE_MODELS)
    \/ OutOfEnum(p.size, IMAGE_SIZES)

VideoInvalid(p) ==
    \/ p.prompt = <<>>
    \/ OutOfEnum(p.model, VIDEO_MODELS)
    \/ OutOfEnum(p.resolution, VIDEO_RESOLUTIONS)
    \/ OutOfEnum(p.ratio, VIDEO_RATIOS)
    \/ p.duration # None /\ (p.duration[1] < 2 \/ p.duration[1] > 12)

IsErr(r) == r # None /\ ~r[1].ok

\* C7: a submission with an empty prompt, a model, size, resolution or ratio
\* outside its enumeration or a duration outside 2..12 returns an error and
\* leaves the store, the submitted notifications and the executors as they were
C7_InvalidSubmitRejected ==
    [][ \/ (IsErr(ret') /\ UNCHANGED <<tasks, execs, submitted>>)
        \/ /\ \A p \in ImageInputs, db_ok \in BOOLEAN :
                  ~(ImageInvalid(p) /\ submit_image(p, db_ok))
           /\ \A p \in VideoInputs, db_ok \in BOOLEAN :
                  ~(VideoInvalid(p) /\ submit_video(p, db_ok)) ]_vars

\* a duration of 20 was rejected after an accepted submission: the store
\* still holds only the accepted row
C7_Witness ==
    /\ ret = Err("duration must be 2-12 seconds")
    /\ Len(tasks) = 1
    /\ Len(execs) = 1

\* a valid image submission: non-blank prompt, values inside the enumerations
ImageValid(p) == Len(Trim(p.prompt)) > 0 /\ ~ImageInvalid(p)

\* no executor of task id t has had an answer from the remote service
NoAnswerYet(t) ==
    \A e \in ExecsOn(t) : execs[e].remote = {} \/ execs[e].pc \in { "await_image", "await_create" }

SubmittedImageExecs ==
    { e \in DOMAIN execs : execs[e].origin = "submit" /\ execs[e].task.task_type = "image" }

\* C8 as stated: every valid image submission returns a task id, and until
\* the remote service has answered, the row of that id is pending or running
C8_SubmitReturnsIdThenPendingOrRunning ==
    /\ [][\A p \in ImageInputs, db_ok \in BOOLEAN :
             (ImageValid(p) /\ submit_image(p, db_ok)) => (ret' # None /\ ret'[1].ok)]_vars
    /\ [](\A e \in SubmittedImageExecs :
             NoAnswerYet(execs[e].task.id)
             => status_of(tasks, execs[e].task.id) \in { "pending", "running" })

\* C8 amended: a valid image submission whose insert succeeds returns the id
\* of a new pending row and its executor has sent nothing to the remote
\* service; until the service has answered, the row is pending or running, or
\* failed with the store's error
C8_SubmitReturnsIdUnlessStoreFails ==
    /\ [][\A p \in ImageInputs :
             (ImageValid(p) /\ submit_image(p, TRUE))
             => /\ ret' = Ok(new_task_id)
                /\ status_of(tasks', new_task_id) = "pending"
                /\ Len(execs') = Len(execs) + 1
                /\ execs'[Len(execs')].task.id = new_task_id
                /\ execs'[Len(execs')].remote = {}]_vars
    /\ [](\A e \in SubmittedImageExecs :
             NoAnswerYet(execs[e].task.id)
             => LET got == get_task(tasks, execs[e].task.id)
                IN  /\ got # None
                    /\ \/ got[1].status \in { "pending", "running" }
                       \/ got[1].status = "failed" /\ got[1].error = Some(E("db")))

\* submit has returned the id of a row that is now running, its executor
\* waiting for the service
C8_Witness ==
    \E e \in SubmittedImageExecs :
        /\ ret = Ok(execs[e].task.id)
        /\ execs[e].pc = "await_image"
        /\ status_of(tasks, execs[e].task.id) = "running"

\* the invocations of a sink for task id t, over all executors
Invocations(t, sink) ==
    { <<e, k>> \in (DOMAIN execs) \X (1..3) :
        /\ e \in ExecsOn(t)
        /\ k \in DOMAIN execs[e].sinks
        /\ execs[e].sinks[k].sink = sink }

\* C9: each sink is invoked at most once per task, and only when the row is
\* recorded as done or failed
C9_SinkAtMostOnceAfterTerminal ==
    \A i \in DOMAIN tasks : \A sink \in { "task:complete", "on_complete" } :
        /\ Cardinality(Invocations(tasks[i].id, sink)) <= 1
        /\ \A inv \in Invocations(tasks[i].id, sink) :
              execs[inv[1]].sinks[inv[2]].stored \in Terminal

\* the sinks registered, in registration order
Registered ==
    (IF app_handle THEN <<"task:complete">> ELSE <<>>)
    \o (IF on_complete THEN <<"on_complete">> ELSE <<>>)

\* what the step that ends executor e appended to its sink invocations
Dispatched(e) == SubSeq(execs'[e].sinks, Len(execs[e].sinks) + 1, Len(execs'[e].sinks))

Ends(e) == execs[e].pc = "returned" /\ execs'[e].pc = "finished"

ExpectedId(line) == IF from_str(line)[1].ok THEN line.id[1] ELSE "unknown"

KnownRequest(line) ==
    from_str(line)[1].ok /\ line.method[1] \in { "canvas_read", "canvas_batch" }

IsResult(f) == "result" \in DOMAIN f
IsError(f, msg) == "error" \in DOMAIN f /\ f.error = msg
IsTimeout(f) == IsError(f, "Request timed out (30s)")
IsChannelClosed(f) == IsError(f, "Response channel closed")
IsEmitFailed(f) == IsError(f, "Failed to emit event")

\* every response frame written so far, with the line it answers
Answers ==
    { <<conns[c].inp[k], conns[c].out[k]>> : <<c, k>> \in
        { ck \in (DOMAIN conns) \X (1..MaxFrames + 1) : ck[2] \in DOMAIN conns[ck[1]].out } }

\* C12 as stated: the response to a well-formed request of a known method
\* is the acknowledgement's payload, Timeout or ChannelClosed
C12_OneOfThreeOutcomes ==
    \A a \in Answers :
        KnownRequest(a[1]) => (IsResult(a[2]) \/ IsTimeout(a[2]) \/ IsChannelClosed(a[2]))

\* C12 amended: a well-formed request of a known method ends in exactly one
\* of four ways, each with one frame: (a) its slot was filled while it waited
\* and the payload is written; (b) the timeout ran out with the slot
\* unfilled, the entry under its id is removed and Timeout is written; (c)
\* its sender was dropped and ChannelClosed is written; (d) the emit to the
\* WebView failed, the entry under its id is removed and the emit error is
\* written
C12_OneOfFourOutcomes ==
    [][\A c \in DOMAIN conns :
          LET x == conns[c]
              y == conns'[c]
              f == y.out[Len(y.out)]
          IN  (x.pc \in { "wait", "timed_out", "emit_failed" } /\ y.pc = "read")
              => /\ Len(y.out) = Len(x.out) + 1
                 /\ f.id = x.req[1].id
                 /\ \/ /\ IsResult(f)
                       /\ x.pc = "wait" /\ x.rx.st = "filled" /\ f.result = x.rx.val
                    \/ /\ IsTimeout(f)
                       /\ x.pc = "timed_out" /\ x.rx.st = "dropped"
                       /\ map_get(pending', x.req[1].id) = {}
                    \/ /\ IsChannelClosed(f)
                       /\ x.pc = "wait" /\ x.rx.st = "closed"
                    \/ /\ IsEmitFailed(f)
                       /\ x.pc = "emit_failed"
                       /\ map_get(pending', x.req[1].id) = {}]_vars

\* all four outcomes have happened
C12_Witness ==
    /\ \E a \in Answers : KnownRequest(a[1]) /\ IsResult(a[2])
    /\ \E a \in Answers : KnownRequest(a[1]) /\ IsTimeout(a[2])
    /\ \E a \in Answers : KnownRequest(a[1]) /\ IsChannelClosed(a[2])
    /\ \E a \in Answers : KnownRequest(a[1]) /\ IsEmitFailed(a[2])

\* the entry the request connection c is handling put into the map
OwnEntry(c) == [id |-> conns[c].req[1].id, tx |-> Tx(c)]

\* C13: of the acknowledgement and the timeout, the one that comes second
\* is a no-op: the timeout's cleanup of a request whose entry is already gone
\* leaves the map as it is; when Timeout or ChannelClosed is written the
\* request's entry is not in the map; and an acknowledgement for an id
\* already answered with Timeout or ChannelClosed changes neither the map nor
\* any connection
C13_RemovedExactlyOnce ==
    /\ [][\A c \in DOMAIN conns, write_ok \in BOOLEAN :
             (timeout_cleanup(c, write_ok) /\ OwnEntry(c) \notin pending)
             => pending' = pending]_vars
    /\ [][\A c \in DOMAIN conns, write_ok \in BOOLEAN :
             (timeout_cleanup(c, write_ok) \/ recv_closed(c, write_ok))
             => OwnEntry(c) \notin pending']_vars
    /\ [][\A payload \in AckPayloads :
             ( /\ mcp_response(payload)
               /\ payload.json
               /\ \E a \in Answers :
                     a[2].id = payload.id /\ (IsTimeout(a[2]) \/ IsChannelClosed(a[2])) )
             => UNCHANGED <<pending, conns>>]_vars

\* C14: an acknowledgement tagged r that is delivered while a request with
\* id r waits unanswered, its 30 seconds not yet over, fills its slot, so
\* that its one response frame carries the payload; an acknowledgement tagged
\* r that is delivered after a request with id r was answered with Timeout
\* changes neither the map nor any connection
C14_AckBeforeBoundIsTheResponse ==
    /\ [][\A payload \in AckPayloads, c \in DOMAIN conns :
             ( /\ mcp_response(payload)
               /\ payload.json
               /\ conns[c].pc = "wait" /\ conns[c].rx.st # "filled"
               /\ conns[c].req[1].id = payload.id )
             => conns'[c].rx = Rx("filled", payload.result)]_vars
    /\ [][\A c \in DOMAIN conns :
             (conns[c].pc = "wait" /\ conns[c].rx.st = "filled" /\ conns'[c].pc = "read")
             => conns'[c].out = Append(conns[c].out,
                    [k \in { "id", "result" } |->
                        IF k = "id" THEN conns[c].req[1].id ELSE conns[c].rx.val])]_vars
    /\ [][\A payload \in AckPayloads :
             ( /\ mcp_response(payload)
               /\ payload.json
               /\ \E a \in Answers : a[2].id = payload.id /\ IsTimeout(a[2]) )
             => UNCHANGED <<pending, conns>>]_vars

\* connection c is handling a request whose method is not a known one
HandlingUnknown(c) ==
    /\ conns[c].req # None
    /\ conns[c].req[1].method \notin { "canvas_read", "canvas_batch" }

\* C15: while a request of an unknown method is handled the pending map has
\* no entry under its id, and reading it and answering it leave the map and
\* every other connection as they were
C15_UnknownMethodNoSlot ==
    /\ [](\A c \in DOMAIN conns :
             HandlingUnknown(c) => map_get(pending, conns[c].req[1].id) = {})
    /\ [][\A c \in DOMAIN conns :
             ( /\ conns'[c] # conns[c]
               /\ conns'[c].req # conns[c].req
               /\ \/ /\ conns'[c].req # None
                     /\ conns'[c].req[1].method \notin { "canvas_read", "canvas_batch" }
                  \/ HandlingUnknown(c) )
             => /\ pending' = pending
                /\ \A d \in DOMAIN conns : d # c => conns'[d] = conns[d]]_vars

\* a malformed line: bytes that are not UTF-8, text that is not JSON, or
\* JSON without one of the members of a request
Malformed(line) ==
    \/ ~line.utf8
    \/ ~line.json
    \/ line.id = None \/ line.method = None \/ ~line.params

\* C16: a malformed line read on a connection (the write of the response
\* succeeding) is answered with an error frame whose id is "unknown", leaves
\* the pending map as it was, and leaves the connection reading
C16_MalformedAnsweredUnknown ==
    [][\A c \in DOMAIN conns, line \in Lines :
          (Malformed(line) /\ read_line(c, line, TRUE))
          => /\ conns'[c].pc = "read"
             /\ Len(conns'[c].out) = Len(conns[c].out) + 1
             /\ conns'[c].out[Len(conns'[c].out)].id = "unknown"
             /\ "error" \in DOMAIN conns'[c].out[Len(conns'[c].out)]
             /\ pending' = pending]_vars

\* C17: every response frame written carries exactly one of result and
\* error
C17_ResultXorError ==
    \A c \in DOMAIN conns : \A k \in DOMAIN conns[c].out :
        ("result" \in DOMAIN conns[c].out[k]) # ("error" \in DOMAIN conns[c].out[k])

\* frames of four kinds have been written: for a malformed line, for an
\* unknown method, for an emit failure or an acknowledgement, and for a
\* closed channel or a timeout
C17_Witness ==
    /\ \E a \in Answers : a[2].id = "unknown"
    /\ \E a \in Answers : IsError(a[2], "Unknown method")
    /\ \E a \in Answers : IsEmitFailed(a[2]) \/ IsResult(a[2])
    /\ \E a \in Answers : IsChannelClosed(a[2]) \/ IsTimeout(a[2])

\* the executors a step has spawned
Spawned == SubSeq(execs', Len(execs) + 1, Len(execs'))

\* the executors among those spawned that were given the row of task id t
SpawnedFor(t) == { k \in DOMAIN Spawned : Spawned[k].task.id = t }

\* C18: a resume pass whose scan succeeds leaves the table as it is and
\* spawns, for every row that is running and of a known type, one executor
\* of that type holding the row as stored, its input included; it spawns
\* none for a row that is pending, done or failed
C18_ResumeDispatchesRunning ==
    [][resume_running_tasks(TRUE)
       => /\ tasks' = tasks
          /\ \A i \in DOMAIN tasks :
                LET t == tasks[i]
                IN  IF t.status = "running" /\ t.task_type \in { "image", "video" }
                    THEN /\ Cardinality(SpawnedFor(t.id)) = 1
                         /\ \A k \in SpawnedFor(t.id) :
                               /\ Spawned[k].task = t
                               /\ Spawned[k].pc = "start"
                               /\ Spawned[k].run = IF t.task_type = "image"
                                                   THEN "run_image_task"
                                                   ELSE "run_video_task"
                    ELSE t.status # "running" => SpawnedFor(t.id) = {}]_vars

\* a pass has spawned a video executor for a running video row and none for
\* the failed row next to it
C18_Witness ==
    /\ Len(tasks) = 2
    /\ tasks[1].status = "failed"
    /\ tasks[2].status = "running" /\ tasks[2].task_type = "video"
    /\ Len(execs) = 1
    /\ execs[1].origin = "resume" /\ execs[1].run = "run_video_task"
    /\ execs[1].task = tasks[2]

\* C19: a resume pass whose scan succeeds spawns nothing for a running row
\* of an unknown type and leaves that row as it is, and it still spawns an
\* executor for every running row of a known type, before or after it
C19_UnknownKindSkipped ==
    [][resume_running_tasks(TRUE)
       => \A i \in DOMAIN tasks :
             (tasks[i].status = "running" /\ tasks[i].task_type \notin { "image", "video" })
             => /\ SpawnedFor(tasks[i].id) = {}
                /\ tasks'[i] = tasks[i]
                /\ \A j \in DOMAIN tasks :
                      (tasks[j].status = "running" /\ tasks[j].task_type \in { "image", "video" })
                      => SpawnedFor(tasks[j].id) # {}]_vars

\* a pass met a running row of an unknown type first and then spawned the
\* executor of the running image row after it
C19_Witness ==
    /\ Len(tasks) = 2
    /\ tasks[1].status = "running" /\ tasks[1].task_type = "audio"
    /\ tasks[2].status = "running" /\ tasks[2].task_type = "image"
    /\ Len(execs) = 1
    /\ execs[1].origin = "resume" /\ execs[1].task.id = tasks[2].id

\* C20: when execute has failed, the return of run_image_task or
\* run_video_task leaves the row with status failed and the failure in
\* error, and the executor sends nothing more to the remote service
C20_FailureIsRecordedAndFinal ==
    [][\A e \in DOMAIN execs :
          /\ (execs[e].pc = "fail" /\ execs'[e].pc = "returned")
             => LET got == get_task(tasks', execs[e].task.id)
                IN  /\ got # None
                    /\ got[1].status = "failed"
                    /\ got[1].error = execs[e].err
          /\ execs[e].pc \in { "fail", "returned", "finished" }
             => execs'[e].remote = execs[e].remote]_vars

\* C21: with a store that does not fail and calls that return, the row of
\* every task an executor was started for eventually has status done or
\* failed; a video executor whose job never ends gives up by the poll bound
C21_StartedTaskEnds ==
    \A e \in 1..MaxExecs :
        Live(e) ~> (Live(e) /\ status_of(tasks, execs[e].task.id) \in Terminal)

C21_Witness ==
    \E e \in DOMAIN execs :
        /\ execs[e].pc = "finished"
        /\ execs[e].run = "run_video_task"
        /\ get_task(tasks, execs[e].task.id) # None
        /\ get_task(tasks, execs[e].task.id)[1].status = "failed"
        /\ get_task(tasks, execs[e].task.id)[1].error # None
        /\ get_task(tasks, execs[e].task.id)[1].error[1].msg
              = "video generation timed out after 600s"

\* C22: an executor sends nothing to the remote service while the row of
\* its task is pending: its first request leaves in the step that has set
\* the row to running with no output, no handle and no error
C22_RunningBeforeRemote ==
    /\ [](\A e \in DOMAIN execs :
             execs[e].remote # {} => status_of(tasks, execs[e].task.id) # "pending")
    /\ [][\A e \in DOMAIN execs :
             (execs[e].remote = {} /\ execs'[e].remote # {})
             => LET got == get_task(tasks', execs[e].task.id)
                IN  /\ got # None
                    /\ got[1].status = "running"
                    /\ got[1].output = None
                    /\ got[1].ark_task_id = None
                    /\ got[1].error = None]_vars

C22_Witness ==
    \E e \in DOMAIN execs :
        /\ execs[e].origin = "submit"
        /\ execs[e].pc \in { "await_image", "await_create" }
        /\ execs[e].remote # {}
        /\ status_of(tasks, execs[e].task.id) = "running"

\* the polls an executor has sent
Polls(x) == { r \in x.remote : r[1] = "get_video_task" }

\* C23: a video executor enters the poll loop by the step that has written
\* the handle create returned into the row, and sends polls only from the
\* loop; its done write puts that handle and an output of width 1280 and
\* height 720 into the row, so that every done video row has both
C23_HandlePersistedThenKept ==
    /\ [](\A i \in DOMAIN tasks :
             (tasks[i].task_type = "video" /\ tasks[i].status = "done")
             => /\ tasks[i].ark_task_id # None
                /\ tasks[i].output # None
                /\ tasks[i].output[1].width = 1280
                /\ tasks[i].output[1].height = 720)
    /\ [][\A e \in DOMAIN execs :
             LET got == get_task(tasks', execs[e].task.id)
             IN  /\ (execs[e].pc # "poll" /\ execs'[e].pc = "poll")
                    => /\ Polls(execs[e]) = {}
                       /\ execs'[e].ark # None
                       /\ got # None
                       /\ got[1].status = "running"
                       /\ got[1].ark_task_id = execs'[e].ark
                 /\ Polls(execs'[e]) # Polls(execs[e])
                    => /\ execs[e].pc = "poll"
                       /\ Polls(execs'[e]) = { <<"get_video_task", execs[e].ark[1]>> }
                 /\ (execs[e].run = "run_video_task" /\ execs[e].pc = "write_done"
                        /\ execs'[e].pc = "returned")
                    => /\ got # None
                       /\ got[1].status = "done"
                       /\ got[1].ark_task_id = execs[e].ark
                       /\ Polls(execs[e]) = { <<"get_video_task", got[1].ark_task_id[1]>> }
                       /\ got[1].output[1].width = 1280
                       /\ got[1].output[1].height = 720]_vars

C23_Witness ==
    \E e \in DOMAIN execs :
        /\ execs[e].run = "run_video_task"
        /\ execs[e].pc = "finished"
        /\ Polls(execs[e]) # {}
        /\ get_task(tasks, execs[e].task.id) # None
        /\ get_task(tasks, execs[e].task.id)[1].status = "done"
        /\ Polls(execs[e])
              = { <<"get_video_task", get_task(tasks, execs[e].task.id)[1].ark_task_id[1]>> }

\* the statuses of a job that has ended without a video
RemoteFailure == { Some("failed"), Some("expired"), Some("cancelled") }

\* the answer executor x received last reports such a status
ReportedFailure(x) ==
    x.status # None /\ x.status[1].success /\ x.status[1].status \in RemoteFailure

\* C24: the poll that reports failed, expired or cancelled ends execute with
\* an error carrying the reported message, or "unknown error" when there is
\* none; the executor then sends nothing more and its return leaves the row
\* failed with that error
C24_RemoteFailureFailsTask ==
    [][\A e \in DOMAIN execs :
          /\ (execs[e].pc = "poll" /\ ReportedFailure(execs'[e]))
             => /\ execs'[e].pc = "fail"
                /\ execs'[e].err[1].msg = "video task " \o execs'[e].status[1].status[1]
                /\ execs'[e].err[1].detail
                      = IF execs'[e].status[1].message = None THEN "unknown error"
                        ELSE execs'[e].status[1].message[1]
          /\ (execs[e].pc = "fail" /\ ReportedFailure(execs[e]))
             => LET got == get_task(tasks', execs[e].task.id)
                IN  /\ execs'[e].pc = "returned"
                    /\ execs'[e].remote = execs[e].remote
                    /\ got # None
                    /\ got[1].status = "failed"
                    /\ got[1].error = execs[e].err]_vars

\* the answer executor x received last reports succeeded
ReportedSucceeded(x) ==
    x.status # None /\ x.status[1].success /\ x.status[1].status = Some("succeeded")

\* C25: the poll that reports succeeded without a URL ends execute with the
\* error "succeeded but no video URL", and the return of the executor leaves
\* the row failed with that error, not done; with a URL the loop is left
\* for the download of that URL
C25_SucceededNeedsUrl ==
    [][\A e \in DOMAIN execs :
          /\ (execs[e].pc = "poll" /\ ReportedSucceeded(execs'[e]))
             => IF execs'[e].status[1].video_url = None
                THEN /\ execs'[e].pc = "fail"
                     /\ execs'[e].err = Some(E("succeeded but no video URL"))
                ELSE /\ execs'[e].pc = "download"
                     /\ execs'[e].url = execs'[e].status[1].video_url
          /\ (execs[e].pc = "fail" /\ ReportedSucceeded(execs[e]))
             => LET got == get_task(tasks', execs[e].task.id)
                IN  /\ execs'[e].pc = "returned"
                    /\ execs'[e].remote = execs[e].remote
                    /\ got # None
                    /\ got[1].status = "failed"
                    /\ got[1].error = execs[e].err]_vars

\* the answer executor x received last has a status execute does not know,
\* or none
ReportedTransient(x) ==
    /\ x.status # None
    /\ x.status[1].success
    /\ x.status[1].status \notin ({ Some("succeeded") } \cup RemoteFailure)

\* C26: a poll answered with an unknown or absent status writes nothing:
\* the row stays running with the handle, the executor stays in the loop
\* with the interval slept, and its next step is another poll unless the
\* bound is exceeded, when it is the timeout
C26_UnknownStatusPollsAgain ==
    /\ [](\A e \in DOMAIN execs :
             execs[e].pc = "poll"
             => LET got == get_task(tasks, execs[e].task.id)
                IN  /\ got # None
                    /\ got[1].status = "running"
                    /\ got[1].ark_task_id = execs[e].ark
                    /\ got[1].ark_task_id # None)
    /\ [][\A e \in DOMAIN execs :
             /\ (execs[e].pc = "poll" /\ execs'[e].polls = execs[e].polls + 1
                    /\ ReportedTransient(execs'[e]))
                => /\ execs'[e].pc = "poll"
                   /\ tasks' = tasks
                   /\ execs'[e].term = execs[e].term
                   /\ execs'[e].ark = execs[e].ark
                   /\ execs'[e].elapsed >= execs[e].elapsed + POLL_INTERVAL
             /\ (execs[e].pc = "poll" /\ ReportedTransient(execs[e]))
                => IF execs[e].elapsed > POLL_TIMEOUT
                   THEN execs'[e].pc = "fail" /\ execs'[e].polls = execs[e].polls
                   ELSE execs'[e].polls = execs[e].polls + 1]_vars

C26_Witness ==
    \E e \in DOMAIN execs :
        /\ execs[e].pc = "poll"
        /\ execs[e].polls = 3
        /\ execs[e].status = Some([success |-> TRUE, status |-> None,
                                   video_url |-> None, message |-> None])
        /\ status_of(tasks, execs[e].task.id) = "running"

\* execute of x has ended with the timeout of the poll loop
TimedOut(x) ==
    /\ x.pc = "fail"
    /\ x.err # None
    /\ x.err[1].msg = "video generation timed out after 600s"

\* C27: when no poll has reported a terminal status by the bound, execute
\* ends with the timeout error, which carries the job handle, and the return
\* of the executor leaves the row failed with that error
C27_TimeoutFailsTask ==
    [][\A e \in DOMAIN execs :
          /\ (execs[e].pc = "poll" /\ execs[e].elapsed > POLL_TIMEOUT)
             => /\ TimedOut(execs'[e])
                /\ execs'[e].err[1].ark = execs[e].ark
                /\ execs[e].ark # None
                /\ execs'[e].remote = execs[e].remote
          /\ TimedOut(execs[e])
             => LET got == get_task(tasks', execs[e].task.id)
                IN  /\ execs'[e].pc = "returned"
                    /\ execs'[e].remote = execs[e].remote
                    /\ got # None
                    /\ got[1].status = "failed"
                    /\ got[1].error = execs[e].err]_vars

\* C28 as stated: a poll is sent only while no more than POLL_TIMEOUT
\* seconds have passed since polling began, and an executor sends at most
\* POLL_TIMEOUT / POLL_INTERVAL = 120 polls
C28_NoPollPastBoundAtMost120 ==
    /\ [](\A e \in DOMAIN execs : execs[e].polls <= POLL_TIMEOUT \div POLL_INTERVAL)
    /\ [][\A e \in DOMAIN execs :
             execs'[e].polls = execs[e].polls + 1
             => execs[e].elapsed + POLL_INTERVAL <= POLL_TIMEOUT]_vars

\* C28 amended: a turn of the poll loop begins only while no more than
\* POLL_TIMEOUT seconds have passed, and sleeps POLL_INTERVAL before it
\* sends its poll; every turn takes at least POLL_INTERVAL, so an executor
\* sends at most POLL_TIMEOUT / POLL_INTERVAL + 1 = 121 polls
C28_NoTurnPastBoundAtMost121 ==
    /\ [](\A e \in DOMAIN execs :
             /\ execs[e].polls <= POLL_TIMEOUT \div POLL_INTERVAL + 1
             /\ execs[e].pc = "poll" => execs[e].polls * POLL_INTERVAL <= execs[e].elapsed)
    /\ [][\A e \in DOMAIN execs :
             execs'[e].polls = execs[e].polls + 1
             => /\ execs[e].elapsed <= POLL_TIMEOUT
                /\ execs'[e].elapsed >= execs[e].elapsed + POLL_INTERVAL]_vars

C28_Witness ==
    \E e \in DOMAIN execs :
        /\ execs[e].polls = POLL_TIMEOUT \div POLL_INTERVAL + 1
        /\ execs[e].elapsed = POLL_TIMEOUT + POLL_INTERVAL

\* C29: an executor that is inside an await of execute (a remote call, the
\* sleep or the poll of the loop, the download, a file write) does not hold
\* the guard of the store; whoever holds it is at a block that uses the
\* store and drops it, so no other user of the store waits for a remote call
C29_NoLockAcrossAwait ==
    /\ \A e \in DOMAIN execs : execs[e].pc \in SuspendedPcs => db_lock # Some(e)
    /\ db_lock # None => /\ Live(db_lock[1])
                         /\ execs[db_lock[1]].pc \in LockPcs

C29_Witness ==
    \E e, w \in DOMAIN execs :
        /\ execs[e].pc \in SuspendedPcs
        /\ execs[e].remote # {}
        /\ db_lock = Some(w)
        /\ execs[w].pc = "write_done"

\* C30: a connection that waits for its acknowledgement does not hold the
\* guard of the pending map, and its wait keeps no other connection back:
\* while it waits and no one holds the guard, a further connection can be
\* accepted, and on every other connection a request can be read and
\* registered, its event emitted, its acknowledgement delivered into its
\* slot and its response written
C30_WaitHoldsNoLock ==
    \A c \in DOMAIN conns :
        conns[c].pc = "wait"
        => /\ map_lock # Some(c)
           /\ (map_lock = None /\ Len(conns) < MaxConns)
              => ENABLED (accept /\ UNCHANGED <<task_vars, map_lock, deferred, client>>)
           /\ \A d \in DOMAIN conns \ {c} :
                 map_lock = None
                 => /\ (conns[d].pc = "read" /\ Len(conns[d].inp) < MaxFrames)
                       => \A r \in CorrelationIds :
                             ENABLED (/\ read_line(d, Line(TRUE, TRUE, Some(r),
                                                           Some("canvas_read"), TRUE), TRUE)
                                      /\ conns'[d].pc = "emit"
                                      /\ UNCHANGED <<task_vars, map_lock, deferred, client>>)
                    /\ conns[d].pc = "emit"
                       => ENABLED (emit(d, TRUE) /\ UNCHANGED <<task_vars, map_lock, deferred, client>>)
                    /\ (conns[d].pc = "wait" /\ conns[d].rx.st = "open"
                           /\ Tx(d) \in map_get(pending, conns[d].req[1].id))
                       => ENABLED (/\ mcp_response([json |-> TRUE, id |-> conns[d].req[1].id,
                                                    result |-> "a"])
                                   /\ conns'[d].rx.st = "filled"
                                   /\ UNCHANGED <<task_vars, map_lock, deferred, client>>)
                    /\ (conns[d].pc = "wait" /\ conns[d].rx.st = "filled")
                       => ENABLED (/\ recv(d, TRUE)
                                   /\ IsResult(conns'[d].out[Len(conns'[d].out)])
                                   /\ UNCHANGED <<task_vars, map_lock, deferred, client>>)

C30_Witness ==
    \E c, d \in DOMAIN conns :
        /\ c < d
        /\ conns[c].pc = "wait"
        /\ conns[c].rx.st = "open"
        /\ conns[c].out = <<>>
        /\ map_get(pending, conns[c].req[1].id) = { Tx(c) }
        /\ \E i \in DOMAIN conns[d].out : IsResult(conns[d].out[i])

\* the request of connection c waits for the acknowledgement payload p held
\* back by a task of the listener
WaitsForDeferred(c, p) ==
    /\ conns[c].pc = "wait"
    /\ conns[c].rx.st = "open"
    /\ [id |-> p.id, tx |-> Tx(c)] \in pending

\* C31: an acknowledgement that finds the guard of the pending map taken is
\* kept by a task of the listener, and the request waiting for it receives
\* its payload once the task has the guard, unless the request's 30 seconds
\* run out first: at every step the request still waits with the payload
\* held back, or its timeout has fired, or its slot holds the payload
C31_DeferredAckReachesWaiter ==
    [][ \A c \in DOMAIN conns, i \in DOMAIN deferred :
            WaitsForDeferred(c, deferred[i])
            => \/ conns'[c].rx = Rx("filled", deferred[i].result)
               \/ conns'[c].rx.st = "dropped"
               \/ /\ conns'[c].pc = "wait"
                  /\ conns'[c].rx.st = "open"
                  /\ [id |-> deferred[i].id, tx |-> Tx(c)] \in pending'
                  /\ \E j \in DOMAIN deferred' : deferred'[j] = deferred[i] ]_vars

\* get_or_insert_with: the value of an Option field after normalization
Filled(opt, default) == IF opt = None THEN Some(default) ELSE opt

\* the fields normalization fills are set in the stored input of row
FieldsSet(row) ==
    IF row.task_type = "image"
    THEN row.input.model # None /\ row.input.size # None
    ELSE /\ row.input.model # None /\ row.input.resolution # None
         /\ row.input.ratio # None /\ row.input.duration # None

\* C32: the input stored with the pending row of an accepted submission has
\* every optional field set: an unset field holds its default (duration 5 for
\* a video), a supplied field and the prompt are as supplied
C32_DefaultsFilledSuppliedKept ==
    /\ [](\A i \in DOMAIN tasks : tasks[i].status = "pending" => FieldsSet(tasks[i]))
    /\ [][ Len(tasks') = Len(tasks) + 1
           => LET row == tasks'[Len(tasks')]
              IN  /\ row.status = "pending"
                  /\ \A p \in NormalizeImageInputs :
                        submit_image(p, TRUE)
                        => row.input = [ prompt |-> Some(p.prompt),
                                         model  |-> Filled(p.model, DEFAULT_IMAGE_MODEL),
                                         size   |-> Filled(p.size, DEFAULT_IMAGE_SIZE) ]
                  /\ \A p \in NormalizeVideoInputs :
                        submit_video(p, TRUE)
                        => row.input =
                             [ prompt     |-> Some(p.prompt),
                               model      |-> Filled(p.model, DEFAULT_VIDEO_MODEL),
                               resolution |-> Filled(p.resolution, DEFAULT_VIDEO_RESOLUTION),
                               ratio      |-> Filled(p.ratio, DEFAULT_VIDEO_RATIO),
                               duration   |-> Filled(p.duration, 5) ] ]_vars

\* an image submitted with only the size and a video submitted with only the
\* ratio were accepted: the other fields hold the defaults
C32_Witness ==
    /\ Len(tasks) = 2
    /\ tasks[1].status = "pending" /\ tasks[2].status = "pending"
    /\ tasks[1].input = [ prompt |-> Some(<<" ", "f">>),
                          model  |-> Some("doubao-seedream-5-0-260128"),
                          size   |-> Some("1K") ]
    /\ tasks[2].input = [ prompt     |-> Some(<<" ", "f">>),
                          model      |-> Some("doubao-seedance-1-5-pro-251215"),
                          resolution |-> Some("720p"),
                          ratio      |-> Some("1:1"),
                          duration   |-> Some(5) ]

\* the conditions on a submission: a prompt that is not blank, values inside
\* the enumerations once the defaults are in, a duration from 2 to 12
ImageAcceptable(p) ==
    /\ Trim(p.prompt) # <<>>
    /\ Filled(p.model, DEFAULT_IMAGE_MODEL)[1] \in IMAGE_MODELS
    /\ Filled(p.size, DEFAULT_IMAGE_SIZE)[1] \in IMAGE_SIZES

VideoAcceptable(p) ==
    /\ Trim(p.prompt) # <<>>
    /\ Filled(p.model, DEFAULT_VIDEO_MODEL)[1] \in VIDEO_MODELS
    /\ Filled(p.resolution, DEFAULT_VIDEO_RESOLUTION)[1] \in VIDEO_RESOLUTIONS
    /\ Filled(p.ratio, DEFAULT_VIDEO_RATIO)[1] \in VIDEO_RATIOS
    /\ 2 <= Filled(p.duration, DEFAULT_VIDEO_DURATION)[1]
    /\ Filled(p.duration, DEFAULT_VIDEO_DURATION)[1] <= 12

\* the error returned is the one of enumeration enum and lists all of it
NamesValidSet(r, enum) == IsErr(r) /\ valid_named(r[1].err) = enum

\* a call of submit_image / submit_video with the store answering
SubmitImage(p) == submit_image(p, TRUE) /\ UNCHANGED <<bridge_vars, db_lock>>
SubmitVideo(p) == submit_video(p, TRUE) /\ UNCHANGED <<bridge_vars, db_lock>>

\* C33: with the store answering, a submission is accepted exactly if its
\* prompt is not blank, its model, size, resolution and ratio are in their
\* enumerations and its duration is from 2 to 12; the error for the first
\* value outside its enumeration lists that whole enumeration
C33_AcceptedIffValid ==
    (Len(tasks) < MaxTasks /\ Len(execs) < MaxExecs)
    => /\ \A p \in NormalizeImageInputs :
             /\ ImageAcceptable(p) <=> ENABLED (SubmitImage(p) /\ ret'[1].ok)
             /\ ImageAcceptable(p) <=> ~ENABLED (SubmitImage(p) /\ IsErr(ret'))
             /\ (Trim(p.prompt) # <<>> /\ OutOfEnum(p.model, IMAGE_MODELS))
                   => ENABLED (SubmitImage(p) /\ NamesValidSet(ret', IMAGE_MODELS))
             /\ ( /\ Trim(p.prompt) # <<>>
                  /\ ~OutOfEnum(p.model, IMAGE_MODELS)
                  /\ OutOfEnum(p.size, IMAGE_SIZES) )
                   => ENABLED (SubmitImage(p) /\ NamesValidSet(ret', IMAGE_SIZES))
       /\ \A p \in NormalizeVideoInputs :
             /\ VideoAcceptable(p) <=> ENABLED (SubmitVideo(p) /\ ret'[1].ok)
             /\ VideoAcceptable(p) <=> ~ENABLED (SubmitVideo(p) /\ IsErr(ret'))
             /\ (Trim(p.prompt) # <<>> /\ OutOfEnum(p.model, VIDEO_MODELS))
                   => ENABLED (SubmitVideo(p) /\ NamesValidSet(ret', VIDEO_MODELS))
             /\ ( /\ Trim(p.prompt) # <<>>
                  /\ ~OutOfEnum(p.model, VIDEO_MODELS)
                  /\ OutOfEnum(p.resolution, VIDEO_RESOLUTIONS) )
                   => ENABLED (SubmitVideo(p) /\ NamesValidSet(ret', VIDEO_RESOLUTIONS))
             /\ ( /\ Trim(p.prompt) # <<>>
                  /\ ~OutOfEnum(p.model, VIDEO_MODELS)
                  /\ ~OutOfEnum(p.resolution, VIDEO_RESOLUTIONS)
                  /\ OutOfEnum(p.ratio, VIDEO_RATIOS) )
                   => ENABLED (SubmitVideo(p) /\ NamesValidSet(ret', VIDEO_RATIOS))

\* a video with a ratio outside the enumeration was refused after an image
\* with a supplied model and a video of 2 seconds were accepted
C33_Witness ==
    /\ NamesValidSet(ret, VIDEO_RATIOS)
    /\ Len(tasks) = 2
    /\ tasks[1].input.model = Some("doubao-seedream-4-0-250828")
    /\ tasks[2].task_type = "video"
    /\ tasks[2].input.duration = Some(2)

\* an answer the image executor cannot use: an error status, no item, an
\* item without b64_json, content that is not base64
BadImageResponse(resp) ==
    \/ ~resp.success
    \/ resp.data = <<>>
    \/ resp.data[1].b64_json = None
    \/ ~b64_valid(resp.data[1].b64_json[1])

\* the dimensions an answer reports: its size as WxH, or 2048x2048
ReportedDims(resp) ==
    IF resp.data[1].size = None \/ parse_dimensions(resp.data[1].size[1]) = None
    THEN <<2048, 2048>>
    ELSE parse_dimensions(resp.data[1].size[1])[1]

\* C34: an answer of the service that is an error, has no item, no content or
\* content that is not base64 ends execute with an error, and the return of
\* the executor leaves the row failed; after any other answer the executor
\* holds the reported dimensions, or 2048x2048 when the size is absent or not
\* WxH, and its return leaves the row done with an output of the asset path
\* and these dimensions
C34_ImageEndsByAnswer ==
    [][\A e \in DOMAIN execs :
          /\ execs[e].pc = "await_image"
             => \A resp \in ImageResponses :
                   image_generated(e, resp)
                   => IF BadImageResponse(resp)
                      THEN execs'[e].pc = "fail"
                      ELSE execs'[e].dims = Some(ReportedDims(resp))
          /\ ( /\ execs[e].run = "run_image_task"
               /\ execs[e].pc \in { "fail", "write_done" }
               /\ execs[e].remote # {}
               /\ execs'[e].pc = "returned" )
             => LET got == get_task(tasks', execs[e].task.id)
                IN  /\ got # None
                    /\ IF execs[e].dims = None
                       THEN got[1].status = "failed" /\ got[1].output = None
                       ELSE /\ got[1].status = "done"
                            /\ got[1].output # None
                            /\ got[1].output[1].width = execs[e].dims[1][1]
                            /\ got[1].output[1].height = execs[e].dims[1][2]]_vars

\* the keys the frontend reads in the object of an operation with this tag
FrontendKeys(tag) ==
    CASE tag = "add_node" -> { "op", "type", "title", "position", "initialContent",
                               "url", "width", "height", "ref" }
      [] tag = "update_node" -> { "op", "nodeId", "title", "position", "newContent",
                                  "newImageUrl", "newVideoUrl", "width", "height" }
      [] tag = "delete" -> { "op", "nodeIds", "edgeIds" }
      [] tag = "add_edge" -> { "op", "source", "target" }

\* the operations a queued canvas_batch request was built from
OperationsOf(req) == client.callers[req.caller].ops[1]

\* C35: every canvas_batch request holds one JSON object for each operation of
\* the call, in the order of the call; each object carries the snake_case tag
\* of its operation under "op" and exactly the frontend field names, and
\* deserializing it gives the operation back with all its fields
C35_BatchRoundTrip ==
    \A i \in DOMAIN client.queue :
        LET req == client.queue[i]
        IN  req.method = "canvas_batch" =>
              /\ req.params.t = "array"
              /\ DOMAIN req.params.v = DOMAIN OperationsOf(req)
              /\ \A n \in DOMAIN req.params.v :
                    LET j == req.params.v[n]
                        op == OperationsOf(req)[n]
                    IN  /\ j.t = "object"
                        /\ DOMAIN j.v = FrontendKeys(Tag(op.variant))
                        /\ j.v["op"] = JStr(Tag(op.variant))
                        /\ de(j) = Ok(op)

\* a batch of two operations of different variants is queued, the first an
\* add_node with a position, a width and a ref
C35_Witness ==
    \E i \in DOMAIN client.queue :
        LET req == client.queue[i]
        IN  /\ req.method = "canvas_batch"
            /\ Len(req.params.v) = 2
            /\ OperationsOf(req)[1].variant = "AddNode"
            /\ OperationsOf(req)[1].position # None
            /\ OperationsOf(req)[1].width = Some(400)
            /\ OperationsOf(req)[1].ref_name = Some("cat")
            /\ OperationsOf(req)[2].variant = "Delete"
            /\ OperationsOf(req)[2].node_ids = Some(<<"n1", "n2">>)

\* the requests in flight carry pairwise distinct ids
DistinctInFlight ==
    \A c, d \in DOMAIN conns :
        (c # d /\ conns[c].req # None /\ conns[d].req # None)
        => conns[c].req[1].id # conns[d].req[1].id

\* the frame connection c writes in this step, if it writes one
WritesFrame(c) == Len(conns'[c].out) = Len(conns[c].out) + 1
FrameWritten(c) == conns'[c].out[Len(conns'[c].out)]

\* C36: a step taken while the requests in flight carry pairwise distinct ids,
\* and that leaves them so, closes no acknowledgement channel and takes an
\* entry out of the pending map only for the entry's own request (its
\* handler's cleanup, or an acknowledgement tagged with its id); "Response
\* channel closed" is written only for a channel that was closed, a result
\* frame carries the payload of an acknowledgement tagged with the request's
\* id, and Timeout is written only after the request's own timer ran out
C36_DistinctIdsDoNotInterfere ==
    /\ [][(DistinctInFlight /\ DistinctInFlight')
          => /\ \A c \in DOMAIN conns :
                   conns[c].rx.st # "closed" => conns'[c].rx.st # "closed"
             /\ \A en \in pending \ pending' :
                   LET d == en.tx[1]
                   IN  \/ /\ conns[d].req # None /\ OwnEntry(d) = en
                          /\ conns[d].pc \in MapLockPcs
                          /\ conns'[d].req = None
                       \/ \E payload \in AckPayloads :
                             payload.json /\ payload.id = en.id /\ mcp_response(payload)]_vars
    /\ [][\A c \in DOMAIN conns :
             /\ (conns[c].rx.st = "open" /\ conns'[c].rx.st = "filled")
                => \E payload \in AckPayloads :
                      /\ payload.json /\ payload.id = conns[c].req[1].id
                      /\ conns'[c].rx.val = payload.result
                      /\ mcp_response(payload)
             /\ (WritesFrame(c) /\ IsChannelClosed(FrameWritten(c)))
                => conns[c].rx.st = "closed"
             /\ (WritesFrame(c) /\ IsResult(FrameWritten(c)))
                => conns[c].rx = Rx("filled", FrameWritten(c).result)
             /\ (WritesFrame(c) /\ IsTimeout(FrameWritten(c)))
                => conns[c].pc = "timed_out"]_vars

\* two requests with different ids were in flight on two connections: one
\* has been answered with its acknowledgement's payload, the other with
\* Timeout after its entry was cleaned up, and no channel is closed
C36_Witness ==
    /\ DistinctInFlight
    /\ Len(conns) = 2
    /\ \E c, d \in DOMAIN conns :
          /\ c # d
          /\ conns[c].out # <<>> /\ conns[c].out[1].id = "req-1" /\ IsResult(conns[c].out[1])
          /\ conns[d].out # <<>> /\ conns[d].out[1].id = "req-2" /\ IsTimeout(conns[d].out[1])
    /\ \A a \in Answers : ~IsChannelClosed(a[2])
    /\ pending = {}

\* C37: every invocation of a completion sink carries a status that is done
\* or failed, the status of the record passed to it
C37_SinkGetsTerminalRecord ==
    \A e \in DOMAIN execs : \A k \in DOMAIN execs[e].sinks :
        LET inv == execs[e].sinks[k]
        IN  /\ inv.status \in Terminal
            /\ "row" \in DOMAIN inv => inv.row[1].status \in Terminal

\* the connections whose handler has a request in flight: read and inserted,
\* its response not yet written
InFlight == { c \in DOMAIN conns : conns[c].req # None }

\* C38: every entry of the pending map is the entry of the request its
\* connection has in flight: once the handler has written the response or
\* has ended, nothing it inserted for the request is left; so the map never
\* has more entries than there are connections with a request in flight
C38_PendingMapDoesNotLeak ==
    /\ \A en \in pending : en.tx[1] \in InFlight /\ OwnEntry(en.tx[1]) = en
    /\ Cardinality(pending) <= Cardinality(InFlight)

\* a handler has ended by the failed write of the response to its request,
\* another has answered its request with Timeout and reads again, an
\* acknowledgement was held back meanwhile, and the map is empty
C38_Witness ==
    /\ pending = {}
    /\ \E c, d \in DOMAIN conns :
          /\ conns[c].pc = "closed"
          /\ Len(conns[c].inp) = 1 /\ IsRequest(conns[c].inp[1])
          /\ conns[d].pc = "read"
          /\ conns[d].out # <<>> /\ IsTimeout(conns[d].out[1])
    /\ deferred # <<>>

\* C39: the k-th reply the tool host's task sends goes to the caller whose
\* request was the k-th it wrote; when it carries a response line, that line
\* is the k-th the bridge wrote on the connection, it answers the k-th line
\* the bridge read there, and its id is the id of that caller's request; no
\* caller gets two replies
C39_CallerGetsOwnResponse ==
    \A k \in DOMAIN client.replies :
        LET r == client.replies[k]
        IN  /\ r.id = request_id(k)
            /\ \A j \in DOMAIN client.replies : j # k => client.replies[j].caller # r.caller
            /\ r.frame # None
               => /\ r.frame[1].id = r.id
                  /\ r.frame[1] = conns[client.conn].out[k]
                  /\ conns[client.conn].inp[k].id = Some(r.id)
                  /\ conns[client.conn].inp[k].method = Some(client.callers[r.caller].method)

\* two callers were queued together; both have their replies, the first a
\* result and the second an error, while another process used the same ids
C39_Witness ==
    /\ Len(client.replies) = 2
    /\ client.replies[1].frame # None /\ IsResult(client.replies[1].frame[1])
    /\ client.replies[2].frame # None /\ "error" \in DOMAIN client.replies[2].frame[1]
    /\ client.replies[1].caller # client.replies[2].caller
    /\ \E c \in Foreign : conns[c].inp # <<>>

\* the input of executor e's record cannot be parsed or has no prompt
BadInput(e) == as_str(execs[e].task.input, "prompt") = None

\* the problem an input error names
InputProblems == { "invalid task input JSON", "missing prompt in task input" }

\* C40: an executor whose record has an input that cannot be parsed or lacks
\* a prompt issues no remote call and writes nothing before it fails, its
\* error naming the input problem; and once it has returned, the record is
\* failed with that error
C40_BadInputFailsUntouched ==
    /\ [](\A e \in DOMAIN execs :
             BadInput(e)
             => /\ execs[e].remote = {}
                /\ execs[e].pc = "fail" => execs[e].err[1].msg \in InputProblems
                /\ execs[e].pc \in { "returned", "finished" }
                   => /\ status_of(tasks, execs[e].task.id) = "failed"
                      /\ get_task(tasks, execs[e].task.id)[1].error # None
                      /\ get_task(tasks, execs[e].task.id)[1].error[1].msg \in InputProblems)
    /\ [][\A e \in DOMAIN execs :
             (BadInput(e) /\ execs[e].pc = "start" /\ execs'[e].pc # "start")
             => execs'[e].pc = "fail" /\ tasks' = tasks]_vars

====
